---- MODULE Spec2Model ----
(***************************************************************************)
(* State machine of react-compositional-forms: useForm (root), useField-   *)
(* Array / useFieldObject (aggregating owners) and useField (leaves), run  *)
(* under React's batching: a handler or an effect reads the state of the   *)
(* last committed render (the closure) and queues state updates; a render  *)
(* commits the queue, mounts and unmounts children and schedules the       *)
(* effects whose dependencies changed; effects run children first.         *)
(*                                                                         *)
(* Indices are 1-based: index j of the TypeScript code is j+1 here.        *)
(* A Set<FieldError> is [id, errs]: id is the identity of the Set object   *)
(* (0 is the NO_FIELD_ERRORS singleton), errs its FieldError objects, each *)
(* [id, msg] carrying the identity of the validator call that built it.    *)
(* An array or object value is [id, items]: id is the object identity.     *)
(***************************************************************************)
EXTENDS Integers, Sequences, FiniteSets, TLC

VARIABLES
  harness,   \* which component tree is mounted: "array" or "object"
  mode,      \* UseFormProps.mode, inherited as Control.validationMode
  rule,      \* the validate prop given to useFieldArray
  phase,     \* "idle", "render" (updates queued) or "effects" (effects pending)
  form,      \* useForm state of the last committed render
  formP,     \* useForm state with the queued updates applied
  arr,       \* useFieldArray state of the last committed render
  arrP,      \* useFieldArray state with the queued updates applied
  arrPrev,   \* useFieldArray prevErrors ref
  obj,       \* useFieldObject state of the last committed render
  objP,      \* useFieldObject state with the queued updates applied
  fld,       \* useField state per child slot, last committed render
  fldP,      \* useField state per child slot, queued updates applied
  fldPrev,   \* useField prevErrors ref per child slot
  effF,      \* child slots whose notify effect is pending
  effA,      \* the owner's notify effect is pending
  subs,      \* the handleSubmit invocations awaiting their callback
  lib,       \* a utility object exercised on its own, and the last call on it
  last       \* the last handler or effect that ran, and what it did

vars == <<harness, mode, rule, phase, form, formP, arr, arrP, arrPrev,
          obj, objP, fld, fldP, fldPrev, effF, effA, subs, lib, last>>

\* Longest list the model lets the array grow to.
MaxLen == 2

\* Longest list the form is mounted with.
MaxInit == 1

\* How far the model lets the counters the code never corrects (the recorded
\* length of an ErrorArray, the count of true bits of a BooleanArray) run
\* away from the real length.
MaxDrift == 1

\* The field values: the empty string fails the "Required" rule.
Vals == {"", "1"}

Slots == 1..MaxLen

Lists == UNION {[1..n -> Vals] : n \in 0..MaxLen}

InitLists == {items \in Lists : Len(items) <= MaxInit}

Min(S) == CHOOSE x \in S : \A y \in S : x <= y

\* ---------------------------------------------------------------------------
\* field-errors

NO_FIELD_ERRORS == [id |-> 0, errs |-> {}]

\* new Set([{message: msg}]) built by validator call n. The identities built
\* by the validator of child slot i are 10 * i + k, those of the array's
\* validator are k (0 < k < 10).
NewErrorSet(n, msg) == [id |-> n, errs |-> {[id |-> n, msg |-> msg]}]

fieldErrorDeepEqual(errorA, errorB) ==
  \/ errorA = errorB
  \/ errorA.msg = errorB.msg

\* The comparison without the test of the sizes.
fieldErrorSetsDeepEqual_NoSizeTest(setA, setB) ==
  IF setA.id = setB.id THEN TRUE
  ELSE \A a \in setA.errs : \E b \in setB.errs : fieldErrorDeepEqual(a, b)

fieldErrorSetsDeepEqual(setA, setB) ==
  IF setA.id = setB.id THEN TRUE
  ELSE IF Cardinality(setA.errs) # Cardinality(setB.errs) THEN FALSE
  ELSE \A a \in setA.errs : \E b \in setB.errs : fieldErrorDeepEqual(a, b)

\* ---------------------------------------------------------------------------
\* utils

\* Contents of unionSets(sets): every branch returns a set with the elements
\* of all inputs (the branches differ in which object is returned).
unionSets(sets) == UNION {sets[k].errs : k \in DOMAIN sets}

\* unionSets on Set objects: heap[k] is the contents of Set object k, ids the
\* list of objects passed, ret the object returned and heap the objects after
\* the call. `new Set()` is the object after the last one of the heap.
RECURSIVE AddAll(_, _, _)
AddAll(heap, acc, ids) ==
  IF ids = <<>> THEN heap
  ELSE AddAll([heap EXCEPT ![acc] =
                 {item \in UNION {heap[k] : k \in DOMAIN heap} :
                    item \in heap[acc] \/ item \in heap[Head(ids)]}],
              acc, Tail(ids))

\* A reduce without a seed: the first input is the accumulator.
unionSetList_NoSeed(heap, ids) ==
  [heap |-> AddAll(heap, ids[1], Tail(ids)), ret |-> ids[1]]

unionSetList(heap, ids) ==
  [heap |-> AddAll(Append(heap, {}), Len(heap) + 1, ids), ret |-> Len(heap) + 1]

unionSetsCall(heap, ids) ==
  IF Len(ids) = 0 THEN [heap |-> Append(heap, {}), ret |-> Len(heap) + 1]
  ELSE IF Len(ids) = 1 THEN [heap |-> heap, ret |-> ids[1]]
  ELSE IF Len(ids) = 2
  THEN IF ids[1] = ids[2] THEN [heap |-> heap, ret |-> ids[1]]
       ELSE IF heap[ids[1]] = {} THEN [heap |-> heap, ret |-> ids[2]]
       ELSE IF heap[ids[2]] = {} THEN [heap |-> heap, ret |-> ids[1]]
       ELSE unionSetList(heap, ids)
  ELSE unionSetList(heap, ids)

\* Contents of unionMapValues(map).
unionMapValues(map) == UNION {map[k].errs : k \in DOMAIN map}

\* ---------------------------------------------------------------------------
\* BooleanArray

BA_fromLength(length) == [bits |-> [k \in 1..length |-> FALSE], numTrue |-> 0]

BA_has(ba, index) == index \in 1..Len(ba.bits)

\* this.bits[index] === value (undefined outside the array).
BA_is(ba, index, value) == BA_has(ba, index) /\ ba.bits[index] = value

BA_concat(ba, other) ==
  [bits |-> ba.bits \o other.bits, numTrue |-> ba.numTrue + other.numTrue]

BA_set(ba, index, value) ==
  IF BA_is(ba, index, value) THEN ba
  ELSE [bits |-> [k \in 1..Len(ba.bits) |->
                    IF k = index THEN value ELSE ba.bits[k]],
        numTrue |-> ba.numTrue +
                    (IF value /\ ~BA_is(ba, index, TRUE) THEN 1 ELSE -1)]

BA_push(ba, value) ==
  [bits |-> Append(ba.bits, value),
   numTrue |-> ba.numTrue + (IF value THEN 1 ELSE 0)]

BA_removeBits(bits, index) ==
  IF index \in 1..Len(bits)
  THEN [k \in 1..(Len(bits) - 1) |-> IF k < index THEN bits[k] ELSE bits[k + 1]]
  ELSE bits

BA_remove(ba, index) ==
  [bits |-> BA_removeBits(ba.bits, index),
   numTrue |-> IF BA_is(ba, index, TRUE) THEN ba.numTrue - 1 ELSE ba.numTrue]

BA_slice(ba, end) ==
  LET bits == SubSeq(ba.bits, 1, IF end < Len(ba.bits) THEN end ELSE Len(ba.bits))
  IN [bits |-> bits,
      numTrue |-> Cardinality({k \in 1..Len(bits) : bits[k]})]

BA_isAnyTrue(ba) == ba.numTrue > 0

\* ---------------------------------------------------------------------------
\* ErrorArray: errors is the sparse map, length the recorded length, cid the
\* identity of the `combined` Set object (0 is NO_FIELD_ERRORS); the contents
\* of `combined` are unionMapValues(errors) after every operation.

EMPTY_ERROR_ARRAY_MAP == [k \in {} |-> NO_FIELD_ERRORS]

EA_fromLength(length) ==
  [errors |-> EMPTY_ERROR_ARRAY_MAP, length |-> length, cid |-> 0]

MapSet(map, key, value) ==
  [k \in (DOMAIN map) \cup {key} |-> IF k = key THEN value ELSE map[k]]

MapDelete(map, key) == [k \in (DOMAIN map) \ {key} |-> map[k]]

\* An identity for a Set object built now: differs from the committed and
\* from the queued `combined`, the only objects it is ever compared with.
FreshCid(used) == Min({n \in 2..4 : n \notin used})

EA_get(ea, index) ==
  IF index \in DOMAIN ea.errors THEN ea.errors[index] ELSE NO_FIELD_ERRORS

EA_set(ea, index, value, usedCids) ==
  IF \/ (index \in DOMAIN ea.errors /\ ea.errors[index].id = value.id)
     \/ (index \notin DOMAIN ea.errors /\ value.errs = {})
  THEN ea
  ELSE [errors |-> IF value.errs # {} THEN MapSet(ea.errors, index, value)
                   ELSE MapDelete(ea.errors, index),
        length |-> ea.length,
        cid |-> FreshCid(usedCids)]

EA_push(ea, value, usedCids) ==
  [errors |-> IF value.errs # {} THEN MapSet(ea.errors, ea.length + 1, value)
              ELSE ea.errors,
   length |-> ea.length + 1,
   cid |-> IF value.errs # {} THEN FreshCid(usedCids) ELSE ea.cid]

EA_remove(ea, index, usedCids) ==
  IF index \notin DOMAIN ea.errors THEN ea
  ELSE [errors |-> MapDelete(ea.errors, index),
        length |-> ea.length,
        cid |-> FreshCid(usedCids)]

EA_slice(ea, end, usedCids) ==
  [errors |-> [k \in {j \in DOMAIN ea.errors : j <= end} |-> ea.errors[k]],
   length |-> end,
   cid |-> FreshCid(usedCids)]

EA_concat(ea, other, usedCids) ==
  IF other.length = 0 THEN ea
  ELSE IF ea.length = 0 THEN other
  ELSE IF DOMAIN ea.errors = {}
    THEN [errors |-> other.errors, length |-> ea.length + other.length,
          cid |-> other.cid]
  ELSE IF DOMAIN other.errors = {}
    THEN [errors |-> ea.errors, length |-> ea.length + other.length,
          cid |-> ea.cid]
  ELSE [errors |-> [k \in (DOMAIN ea.errors) \cup
                           {j + ea.length : j \in DOMAIN other.errors} |->
                      IF k - ea.length \in DOMAIN other.errors
                      THEN other.errors[k - ea.length] ELSE ea.errors[k]],
        length |-> ea.length + other.length,
        cid |-> FreshCid(usedCids)]

EA_allErrors(ea) == unionMapValues(ea.errors)

\* ---------------------------------------------------------------------------
\* BooleanMap and ErrorMap of useFieldObject; the keys of the object are the
\* slots. bits[k] is bits.get(k) ?? false.

BM_create == [bits |-> [k \in Slots |-> FALSE], numTrue |-> 0]

BM_get(bm, key) == bm.bits[key]

BM_set(bm, key, value) ==
  IF bm.bits[key] = value THEN bm
  ELSE [bits |-> [bm.bits EXCEPT ![key] = value],
        numTrue |-> bm.numTrue + (IF value /\ ~bm.bits[key] THEN 1 ELSE -1)]

BM_isAnyTrue(bm) == bm.numTrue > 0

EM_create == [errors |-> EMPTY_ERROR_ARRAY_MAP, cid |-> 0]

EM_get(em, key) ==
  IF key \in DOMAIN em.errors THEN em.errors[key] ELSE NO_FIELD_ERRORS

EM_set(em, key, value, usedCids) ==
  IF \/ (key \in DOMAIN em.errors /\ em.errors[key].id = value.id)
     \/ (key \notin DOMAIN em.errors /\ value.errs = {})
  THEN em
  ELSE [errors |-> IF value.errs # {} THEN MapSet(em.errors, key, value)
                   ELSE MapDelete(em.errors, key),
        cid |-> FreshCid(usedCids)]

EM_allErrors(em) == unionMapValues(em.errors)

\* ---------------------------------------------------------------------------
\* The world a handler runs in: the committed state it reads (form, arr, obj,
\* fld), the queued updates and refs it writes (formP, arrP, objP, fldP,
\* arrPrev, fldPrev) and a record of what it did (validated: a validate prop
\* was called; notified: the root's onChange was called).

World ==
  [form |-> form, formP |-> formP, arr |-> arr, arrP |-> arrP,
   arrPrev |-> arrPrev, obj |-> obj, objP |-> objP,
   fld |-> fld, fldP |-> fldP, fldPrev |-> fldPrev,
   validated |-> FALSE, notified |-> FALSE]

MapIds(map) == {map[k].id : k \in DOMAIN map}

UsedSetIds(w) ==
  {0}
  \cup {w.fld[i].errors.id : i \in Slots}
  \cup {w.fldP[i].errors.id : i \in Slots}
  \cup {w.fldPrev[i].id : i \in Slots}
  \cup {w.arr.errors.id, w.arrP.errors.id, w.arrPrev.id}
  \cup MapIds(w.arr.fieldErrors.errors) \cup MapIds(w.arrP.fieldErrors.errors)
  \cup MapIds(w.obj.fieldErrors.errors) \cup MapIds(w.objP.fieldErrors.errors)
  \cup {e.id : e \in w.form.errors \cup w.formP.errors}

\* Identity of a Set object allocated now by the validator of owner (0 the
\* array, i the child in slot i): one no live reference carries.
FreshSetId(w, owner) ==
  Min({n \in (10 * owner + 1)..(10 * owner + 9) : n \notin UsedSetIds(w)})

\* Identity of an array or object value allocated now.
FreshValueId(w) ==
  Min({n \in 2..6 : n \notin {w.form.value.id, w.formP.value.id,
                              w.form.initialValue.id, w.formP.initialValue.id}})

NewValue(w, items) == [id |-> FreshValueId(w), items |-> items]

CombinedIds(w) ==
  {w.arr.fieldErrors.cid, w.arrP.fieldErrors.cid,
   w.obj.fieldErrors.cid, w.objP.fieldErrors.cid}

\* ---------------------------------------------------------------------------
\* useForm

\* onChange: setValue, setIsDirty, setErrors.
FormOnChange(w, newValue, newIsDirty, newErrors) ==
  [w EXCEPT !.formP.value = newValue,
            !.formP.isDirty = newIsDirty,
            !.formP.errors = newErrors,
            !.notified = TRUE]

\* ---------------------------------------------------------------------------
\* useField, for the child in slot i

\* validate?.(val) ?? NO_FIELD_ERRORS with the validate prop of the test
\* harnesses ("Required"): the field of FieldTest and every row of ArrayTest
\* have it, and of ObjectTest's fields only the first.
FieldValidate(w, i, val) ==
  IF rule = "mustBeEmpty"
  THEN IF val # "" THEN NewErrorSet(FreshSetId(w, i), "Must be empty")
       ELSE NO_FIELD_ERRORS
  ELSE IF val = "" /\ (harness = "array" \/ i = 1)
  THEN NewErrorSet(FreshSetId(w, i), "Required")
  ELSE NO_FIELD_ERRORS

\* isDirty comparing the value with the empty string.
FieldIsDirty_AgainstEmpty(f) == f.value # ""

FieldIsDirty(f) == f.value # f.initialValue

\* validateAndSetErrors that stores whatever object the validator returned.
FieldValidateAndSetErrors_NoReuse(w, i, val) ==
  LET raw == FieldValidate(w, i, val)
  IN [w EXCEPT !.fldPrev[i] = raw,
               !.fldP[i].errors = raw,
               !.validated = TRUE]

FieldValidateAndSetErrors(w, i, val) ==
  LET raw == FieldValidate(w, i, val)
      newErrors == IF fieldErrorSetsDeepEqual(raw, w.fldPrev[i])
                   THEN w.fldPrev[i] ELSE raw
  IN [w EXCEPT !.fldPrev[i] = newErrors,
               !.fldP[i].errors = newErrors,
               !.validated = TRUE]

\* wrappedOnChange without the validation in mode onChange.
wrappedOnChange_NoValidate(w, i, newValue) ==
  IF newValue = w.fld[i].value THEN w
  ELSE [w EXCEPT !.fldP[i].value = newValue]

\* wrappedOnChange without the short-circuit on an unchanged value.
wrappedOnChange_NoShortCircuit(w, i, newValue) ==
  LET w1 == IF mode = "onChange"
            THEN FieldValidateAndSetErrors(w, i, newValue) ELSE w
  IN [w1 EXCEPT !.fldP[i].value = newValue]

wrappedOnChange(w, i, newValue) ==
  IF newValue = w.fld[i].value THEN w
  ELSE LET w1 == IF mode = "onChange"
                 THEN FieldValidateAndSetErrors(w, i, newValue) ELSE w
       IN [w1 EXCEPT !.fldP[i].value = newValue]

\* onBlur validating whatever the validation mode.
onBlur_AnyMode(w, i) == FieldValidateAndSetErrors(w, i, w.fld[i].value)

onBlur(w, i) ==
  IF mode = "onBlur" THEN FieldValidateAndSetErrors(w, i, w.fld[i].value) ELSE w

\* reset that snaps the value back and leaves the errors.
FieldReset_KeepErrors(w, i, hasNew, newInitialValue, keepDirtyValues) ==
  LET nextInitialValue == IF hasNew THEN newInitialValue
                          ELSE w.fld[i].initialValue
      w1 == IF hasNew THEN [w EXCEPT !.fldP[i].initialValue = newInitialValue]
            ELSE w
  IN IF ~(keepDirtyValues /\ FieldIsDirty(w.fld[i]))
     THEN [w1 EXCEPT !.fldP[i].value = nextInitialValue]
     ELSE w1

\* reset that stores the new initial value only when it resets the value.
FieldReset_KeepInitial(w, i, hasNew, newInitialValue, keepDirtyValues) ==
  LET nextInitialValue == IF hasNew THEN newInitialValue
                          ELSE w.fld[i].initialValue
  IN IF ~(keepDirtyValues /\ FieldIsDirty(w.fld[i]))
     THEN [w EXCEPT !.fldP[i].initialValue = nextInitialValue,
                    !.fldP[i].errors = NO_FIELD_ERRORS,
                    !.fldP[i].value = nextInitialValue]
     ELSE w

\* hasNew is newInitialValue !== undefined.
FieldReset(w, i, hasNew, newInitialValue, keepDirtyValues) ==
  LET nextInitialValue == IF hasNew THEN newInitialValue
                          ELSE w.fld[i].initialValue
      w1 == IF hasNew THEN [w EXCEPT !.fldP[i].initialValue = newInitialValue]
            ELSE w
      keepValue == keepDirtyValues /\ FieldIsDirty(w.fld[i])
  IN IF ~keepValue
     THEN [w1 EXCEPT !.fldP[i].errors = NO_FIELD_ERRORS,
                     !.fldP[i].value = nextInitialValue]
     ELSE w1

FieldValidateMethod(w, i) == FieldValidateAndSetErrors(w, i, w.fld[i].value)

\* setValue that validates the new value in mode 'set'.
FieldSetValueMethod_SetValidates(w, i, newValue, setMode) ==
  CASE setMode = "onBlur" -> w
    [] setMode = "onChange" -> wrappedOnChange(w, i, newValue)
    [] setMode = "set" ->
         [FieldValidateAndSetErrors(w, i, newValue)
            EXCEPT !.fldP[i].value = newValue]

\* setValue that only sets the value in mode 'onChange'.
FieldSetValueMethod_ChangeOnlySets(w, i, newValue, setMode) ==
  CASE setMode = "onBlur" -> w
    [] setMode = "onChange" -> [w EXCEPT !.fldP[i].value = newValue]
    [] setMode = "set" -> [w EXCEPT !.fldP[i].value = newValue]

FieldSetValueMethod(w, i, newValue, setMode) ==
  CASE setMode = "onBlur" -> w
    [] setMode = "onChange" -> wrappedOnChange(w, i, newValue)
    [] setMode = "set" -> [w EXCEPT !.fldP[i].value = newValue]

\* ---------------------------------------------------------------------------
\* useFieldArray (the control is the root's: value and initialValue are the
\* form's committed value and initialValue)

\* The validate prop: none, or the "Not one element" rule of the tests.
ArrayValidate(w, items) ==
  IF rule = "notOne" /\ Len(items) # 1
  THEN NewErrorSet(FreshSetId(w, 0), "Not one element")
  ELSE NO_FIELD_ERRORS

\* The result is returned in arrPrev.
ArrValidateAndSetErrors(w, items) ==
  LET raw == ArrayValidate(w, items)
      newErrors == IF fieldErrorSetsDeepEqual(raw, w.arrPrev)
                   THEN w.arrPrev ELSE raw
  IN [w EXCEPT !.arrPrev = newErrors,
               !.arrP.errors = newErrors,
               !.validated = (rule # "none") \/ w.validated]

\* isDirty of the committed render (the useMemo).
ArrIsDirty(f, a) ==
  Len(f.value.items) # Len(f.initialValue.items) \/ BA_isAnyTrue(a.dirtyBits)

\* The children that have installed their FieldRef: those mounted by the
\* committed render.
Mounted(w) == 1..Len(w.form.value.items)

\* The tail every handler shares: validate the new list, union the result with
\* the closure's fieldErrors.allErrors and call the parent's onChange with the
\* closure's dirtyBits.
ArrNotify(w, newValue) ==
  LET w1 == ArrValidateAndSetErrors(w, newValue.items)
      allErrors == w1.arrPrev.errs \cup EA_allErrors(w.arr.fieldErrors)
  IN FormOnChange(w1, newValue,
       Len(newValue.items) # Len(w.form.initialValue.items)
         \/ BA_isAnyTrue(w.arr.dirtyBits),
       allErrors)

\* onChangeItem without the short-circuit on an unchanged report.
onChangeItem_NoShortCircuit(w, newItemValue, isDirty, newItemErrors, index) ==
  LET newItems == [w.form.value.items EXCEPT ![index] = newItemValue]
      w1 == [w EXCEPT
               !.arrP.dirtyBits = BA_set(w.arr.dirtyBits, index, isDirty),
               !.arrP.fieldErrors = EA_set(w.arr.fieldErrors, index,
                                           newItemErrors, CombinedIds(w))]
  IN ArrNotify(w1, NewValue(w1, newItems))

onChangeItem(w, newItemValue, isDirty, newItemErrors, index) ==
  LET value == w.form.value.items
      errors == EA_get(w.arr.fieldErrors, index)
  IN IF /\ newItemValue = value[index]
        /\ BA_is(w.arr.dirtyBits, index, isDirty)
        /\ \/ newItemErrors.id = errors.id
           \/ (newItemErrors.errs = {} /\ errors.errs = {})
     THEN w
     ELSE LET newItems == [value EXCEPT ![index] = newItemValue]
              w1 == [w EXCEPT
                       !.arrP.dirtyBits = BA_set(w.arr.dirtyBits, index, isDirty),
                       !.arrP.fieldErrors = EA_set(w.arr.fieldErrors, index,
                                                   newItemErrors, CombinedIds(w))]
          IN ArrNotify(w1, NewValue(w1, newItems))

\* append that puts the new element first.
append_Prepend(w, initialItemValue) ==
  LET newItems == <<initialItemValue>> \o w.form.value.items
      w1 == [w EXCEPT
               !.arrP.dirtyBits = BA_push(w.arr.dirtyBits, FALSE),
               !.arrP.fieldErrors = EA_push(w.arr.fieldErrors, NO_FIELD_ERRORS,
                                            CombinedIds(w))]
  IN ArrNotify(w1, NewValue(w1, newItems))

append(w, initialItemValue) ==
  LET newItems == Append(w.form.value.items, initialItemValue)
      w1 == [w EXCEPT
               !.arrP.dirtyBits = BA_push(w.arr.dirtyBits, FALSE),
               !.arrP.fieldErrors = EA_push(w.arr.fieldErrors, NO_FIELD_ERRORS,
                                            CombinedIds(w))]
  IN ArrNotify(w1, NewValue(w1, newItems))

RemoveAt(items, index) ==
  [k \in 1..(Len(items) - 1) |-> IF k < index THEN items[k] ELSE items[k + 1]]

\* remove without the bounds check: filter() drops nothing, yet the parent is
\* notified.
remove_Unchecked(w, index) ==
  LET items == w.form.value.items
      newItems == IF index \in 1..Len(items) THEN RemoveAt(items, index)
                  ELSE items
      w1 == [w EXCEPT
               !.arrP.dirtyBits = BA_remove(w.arr.dirtyBits, index),
               !.arrP.fieldErrors = EA_remove(w.arr.fieldErrors, index,
                                              CombinedIds(w))]
  IN ArrNotify(w1, NewValue(w1, newItems))

remove(w, index) ==
  IF index < 1 \/ index > Len(w.form.value.items) THEN w
  ELSE LET newItems == RemoveAt(w.form.value.items, index)
           w1 == [w EXCEPT
                    !.arrP.dirtyBits = BA_remove(w.arr.dirtyBits, index),
                    !.arrP.fieldErrors = EA_remove(w.arr.fieldErrors, index,
                                                   CombinedIds(w))]
       IN ArrNotify(w1, NewValue(w1, newItems))

RECURSIVE ResetChildren(_, _, _)
ResetChildren(w, refs, nextItems) ==
  IF refs = {} THEN w
  ELSE LET i == Min(refs)
       IN ResetChildren(FieldReset(w, i, TRUE, nextItems[i], FALSE),
                        refs \ {i}, nextItems)

\* nextValue is newValue ?? initialValue.
ArrReset(w, hasNew, newValue, keepDirtyValues) ==
  LET value == w.form.value.items
      nextValue == IF hasNew THEN newValue ELSE w.form.initialValue
      n == Len(nextValue.items)
      isDirty == Len(value) # n \/ BA_isAnyTrue(w.arr.dirtyBits)
      keepValue == keepDirtyValues /\ isDirty
  IN IF keepValue THEN w
     ELSE LET w1 == [w EXCEPT !.arrP.dirtyBits = BA_fromLength(n),
                              !.arrP.fieldErrors = EA_fromLength(n)]
              w2 == ArrValidateAndSetErrors(w1, nextValue.items)
              allErrors == w2.arrPrev.errs \cup EA_allErrors(w.arr.fieldErrors)
              w3 == FormOnChange(w2, nextValue,
                                 BA_isAnyTrue(w.arr.dirtyBits), allErrors)
          IN ResetChildren(w3, {i \in Mounted(w) : i <= n}, nextValue.items)

RECURSIVE SetValueChildren(_, _, _, _)
SetValueChildren(w, refs, newItems, setMode) ==
  IF refs = {} THEN w
  ELSE LET i == Min(refs)
       IN SetValueChildren(FieldSetValueMethod(w, i, newItems[i], setMode),
                           refs \ {i}, newItems, setMode)

ArrSetValueMethod(w, newValue, setMode) ==
  IF newValue.id = w.form.value.id THEN w
  ELSE LET old == Len(w.form.value.items)
           n == Len(newValue.items)
           w1 == IF n > old
                 THEN [w EXCEPT
                         !.arrP.dirtyBits =
                            BA_concat(w.arr.dirtyBits, BA_fromLength(n - old)),
                         !.arrP.fieldErrors =
                            EA_concat(w.arr.fieldErrors, EA_fromLength(n - old),
                                      CombinedIds(w))]
                 ELSE IF n < old
                 THEN [w EXCEPT
                         !.arrP.dirtyBits = BA_slice(w.arr.dirtyBits, n),
                         !.arrP.fieldErrors =
                            EA_slice(w.arr.fieldErrors, n, CombinedIds(w))]
                 ELSE w
           w2 == ArrNotify(w1, newValue)
       IN SetValueChildren(w2, {i \in Mounted(w) : i <= n}, newValue.items,
                           setMode)

RECURSIVE ValidateChildren(_, _)
ValidateChildren(w, refs) ==
  IF refs = {} THEN w
  ELSE LET i == Min(refs)
       IN ValidateChildren(FieldValidateMethod(w, i), refs \ {i})

ArrValidateMethod(w) ==
  ValidateChildren(ArrValidateAndSetErrors(w, w.form.value.items), Mounted(w))

\* What validateMethod returns: the union of the array's and the children's
\* results.
ArrValidateResult(w2, refs) ==
  w2.arrPrev.errs \cup UNION {w2.fldPrev[i].errs : i \in refs}

\* ---------------------------------------------------------------------------
\* useFieldObject (the control is the root's); the value's items are indexed
\* by key

ObjIsDirty(o) == BM_isAnyTrue(o.dirtyBits)

onChangeItemObject(w, newItemValue, isDirty, newErrors, key) ==
  LET value == w.form.value.items
      errors == EM_get(w.obj.fieldErrors, key)
  IN IF /\ newItemValue = value[key]
        /\ isDirty = BM_get(w.obj.dirtyBits, key)
        /\ \/ newErrors.id = errors.id
           \/ (newErrors.errs = {} /\ errors.errs = {})
     THEN w
     ELSE LET newItems == [value EXCEPT ![key] = newItemValue]
              newDirtyBits == BM_set(w.obj.dirtyBits, key, isDirty)
              newFieldErrors == EM_set(w.obj.fieldErrors, key, newErrors,
                                       CombinedIds(w))
              w1 == [w EXCEPT !.objP.dirtyBits = newDirtyBits,
                              !.objP.fieldErrors = newFieldErrors]
          IN FormOnChange(w1, NewValue(w1, newItems),
                          BM_isAnyTrue(newDirtyBits),
                          EM_allErrors(newFieldErrors))

ObjValidateMethod(w) == ValidateChildren(w, Slots)

\* childRef?.reset(newValue && nextValue[key], options) for every key: with
\* a new value every child gets its entry, without one every child gets
\* undefined.
RECURSIVE ResetChildrenObject(_, _, _, _, _)
ResetChildrenObject(w, refs, hasNew, nextItems, keepDirtyValues) ==
  IF refs = {} THEN w
  ELSE LET key == Min(refs)
       IN ResetChildrenObject(
            FieldReset(w, key, hasNew, nextItems[key], keepDirtyValues),
            refs \ {key}, hasNew, nextItems, keepDirtyValues)

\* reset: the caches are emptied and every child is reset; useField's reset
\* returns nothing, so every entry of updatedValue is nextValue's.
ObjReset(w, hasNew, newItems, keepDirtyValues) ==
  LET w1 == [w EXCEPT !.objP.dirtyBits = BM_create,
                      !.objP.fieldErrors = EM_create]
      nextItems == IF hasNew THEN newItems ELSE w.form.initialValue.items
  IN ResetChildrenObject(w1, Slots, hasNew, nextItems, keepDirtyValues)

\* What reset returns: updatedValue, a new object.
ObjResetResult(w, hasNew, newItems) ==
  IF hasNew THEN newItems ELSE w.form.initialValue.items

RECURSIVE SetValueChildrenObject(_, _, _, _)
SetValueChildrenObject(w, refs, newItems, setMode) ==
  IF refs = {} THEN w
  ELSE LET key == Min(refs)
           w1 == IF newItems[key] = w.form.value.items[key] THEN w
                 ELSE FieldSetValueMethod(w, key, newItems[key], setMode)
       IN SetValueChildrenObject(w1, refs \ {key}, newItems, setMode)

ObjSetValue(w, newValue, setMode) ==
  IF newValue.id = w.form.value.id THEN w
  ELSE SetValueChildrenObject(w, Slots, newValue.items, setMode)

\* ---------------------------------------------------------------------------
\* useForm handlers, with a field array or a field object as the root's child

\* setValue(newValue, options): a literal list, a new object on every call.
FormSetValueMethod(w, items, setMode) ==
  LET newValue == NewValue(w, items)
      w1 == [w EXCEPT !.formP.value = newValue]
  IN ArrSetValueMethod(w1, newValue, setMode)

\* reset(newValue?, options): useFieldArray's reset returns nothing, so
\* updatedValue is the closure's initialValue.
FormReset(w, hasNew, items, keepDirtyValues) ==
  LET newValue == NewValue(w, items)
      w1 == [w EXCEPT !.formP.isSubmitted = FALSE,
                      !.formP.isSubmitSuccessful = FALSE]
      w2 == IF hasNew THEN [w1 EXCEPT !.formP.initialValue = newValue] ELSE w1
      w3 == ArrReset(w2, hasNew, newValue, keepDirtyValues)
  IN [w3 EXCEPT !.formP.value = w.form.initialValue]

FormTrigger(w) ==
  IF harness = "array" THEN ArrValidateMethod(w)
  ELSE IF harness = "object" THEN ObjValidateMethod(w)
  ELSE FieldValidateMethod(w, 1)

\* ---------------------------------------------------------------------------
\* useForm handlers, with a field object as the root's child (ObjectTest)

\* setValue(newValueOrFn, options): the buttons pass functions that return a
\* new object.
FormSetValueObject(w, items, setMode) ==
  LET newValue == NewValue(w, items)
      w1 == [w EXCEPT !.formP.value = newValue]
  IN ObjSetValue(w1, newValue, setMode)

\* The updater functions the harness passes to setValue, as in the test's
\* setValue(prev => ({...prev, a: '1'})): each sets one key of the previous
\* value.
Updaters == [key : Slots, v : Vals]

ApplyUpdater(u, prev) == [prev EXCEPT ![u.key] = u.v]

\* Most setValue calls one event handler makes.
MaxCalls == 2

\* setValue(fn, options): fn is applied to the value of the closure, the
\* form's value as of the last render.
FormSetValueFn(w, u, setMode) ==
  FormSetValueObject(w, ApplyUpdater(u, w.form.value.items), setMode)

\* An event handler that calls setValue with each updater of us in turn.
RECURSIVE FormSetValueFns(_, _, _)
FormSetValueFns(w, us, setMode) ==
  IF us = <<>> THEN w
  ELSE FormSetValueFns(FormSetValueFn(w, Head(us), setMode), Tail(us), setMode)

\* reset(newValue?, options): useFieldObject's reset returns updatedValue.
FormResetObject(w, hasNew, items, keepDirtyValues) ==
  LET w1 == [w EXCEPT !.formP.isSubmitted = FALSE,
                      !.formP.isSubmitSuccessful = FALSE]
      w2 == IF hasNew
            THEN [w1 EXCEPT !.formP.initialValue = NewValue(w, items)]
            ELSE w1
      w3 == ObjReset(w2, hasNew, items, keepDirtyValues)
  IN [w3 EXCEPT !.formP.value =
                   NewValue(w3, ObjResetResult(w, hasNew, items))]

\* ---------------------------------------------------------------------------
\* useForm handlers, with a scalar field as the root's child (FieldTest): the
\* form's value is the string v, kept as the one-element list <<v>>; strings
\* have no identity of their own (id 0).

ScalarValue(v) == [id |-> 0, items |-> <<v>>]

\* setValue(newValue, options): setValue(newValue), then the field's setValue.
FormSetValueScalar(w, v, setMode) ==
  LET w1 == [w EXCEPT !.formP.value = ScalarValue(v)]
  IN FieldSetValueMethod(w1, 1, v, setMode)

\* A reset that also returns the form to the not-submitting state.
FormResetScalar_ClearsSubmitting(w, hasNew, v, keepDirtyValues) ==
  LET w1 == [w EXCEPT !.formP.isSubmitted = FALSE,
                      !.formP.isSubmitSuccessful = FALSE,
                      !.formP.isSubmitting = FALSE]
      w2 == IF hasNew THEN [w1 EXCEPT !.formP.initialValue = ScalarValue(v)]
            ELSE w1
      w3 == FieldReset(w2, 1, hasNew, v, keepDirtyValues)
  IN [w3 EXCEPT !.formP.value = w.form.initialValue]

\* reset(newValue?, options): useField's reset returns nothing, so
\* updatedValue is the closure's initialValue.
FormResetScalar(w, hasNew, v, keepDirtyValues) ==
  LET w1 == [w EXCEPT !.formP.isSubmitted = FALSE,
                      !.formP.isSubmitSuccessful = FALSE]
      w2 == IF hasNew THEN [w1 EXCEPT !.formP.initialValue = ScalarValue(v)]
            ELSE w1
      w3 == FieldReset(w2, 1, hasNew, v, keepDirtyValues)
  IN [w3 EXCEPT !.formP.value = w.form.initialValue]

\* ---------------------------------------------------------------------------
\* useForm handleSubmit: the callable up to its await, and its continuation

\* Most handleSubmit invocations the model lets await at once.
MaxSubmits == 2

\* What ref.current?.validate() returns: the union of the results the units
\* have just stored in their prevErrors refs.
FormValidateResult(w2) ==
  IF harness = "array" THEN ArrValidateResult(w2, Mounted(w2))
  ELSE IF harness = "object" THEN UNION {w2.fldPrev[i].errs : i \in Slots}
  ELSE w2.fldPrev[1].errs

\* handleSubmit calling onValid whatever validate() returns.
SubmitCallback_AlwaysValid(allErrors, hasOnInvalid) == "onValid"

\* The callback handleSubmit calls for the result of validate().
SubmitCallback(allErrors, hasOnInvalid) ==
  IF allErrors = {} THEN "onValid"
  ELSE IF hasOnInvalid THEN "onInvalid" ELSE "none"

\* The call made: onValid gets the closure's value, onInvalid the errors.
SubmitCall(w, hasOnInvalid, throws) ==
  LET allErrors == FormValidateResult(FormTrigger(w))
      cb == SubmitCallback(allErrors, hasOnInvalid)
  IN [cb |-> cb,
      value |-> IF cb = "onValid" THEN w.form.value.items ELSE <<>>,
      errors |-> IF cb = "onInvalid" THEN {e.msg : e \in allErrors} ELSE {},
      outcome |-> IF cb = "none" THEN "none"
                  ELSE IF throws THEN "threw" ELSE "pending",
      overlapped |-> subs # <<>>]

\* finally: setIsSubmitting(false), setIsSubmitted(true).
SubmitFinally(w) ==
  [w EXCEPT !.formP.isSubmitting = FALSE, !.formP.isSubmitted = TRUE]

\* The callable that starts every submit from the not-submitted state.
handleSubmit_ClearsSubmitted(w, hasOnInvalid, throws) ==
  LET w1 == [w EXCEPT !.formP.isSubmitting = TRUE,
                      !.formP.isSubmitSuccessful = FALSE,
                      !.formP.isSubmitted = FALSE]
      w2 == FormTrigger(w1)
  IN IF SubmitCall(w, hasOnInvalid, throws).outcome = "pending" THEN w2
     ELSE SubmitFinally(w2)

\* The callable that leaves isSubmitSuccessful as the last submit set it.
handleSubmit_KeepsSuccessful(w, hasOnInvalid, throws) ==
  LET w1 == [w EXCEPT !.formP.isSubmitting = TRUE]
      w2 == FormTrigger(w1)
  IN IF SubmitCall(w, hasOnInvalid, throws).outcome = "pending" THEN w2
     ELSE SubmitFinally(w2)

\* The callable up to its await: when no callback is called or the callback
\* throws at once, the finally block runs in the same tick.
handleSubmit(w, hasOnInvalid, throws) ==
  LET w1 == [w EXCEPT !.formP.isSubmitting = TRUE,
                      !.formP.isSubmitSuccessful = FALSE]
      w2 == FormTrigger(w1)
  IN IF SubmitCall(w, hasOnInvalid, throws).outcome = "pending" THEN w2
     ELSE SubmitFinally(w2)

\* The continuation that forgets the finally block when the callback
\* rejects.
handleSubmitResume_NoFinally(w, call, outcome) ==
  IF outcome = "resolved"
  THEN SubmitFinally(IF call.cb = "onValid"
                     THEN [w EXCEPT !.formP.isSubmitSuccessful = TRUE] ELSE w)
  ELSE w

\* The continuation that reports success however the callback settled.
handleSubmitResume_AlwaysSuccessful(w, call, outcome) ==
  SubmitFinally(IF call.cb = "onValid"
                THEN [w EXCEPT !.formP.isSubmitSuccessful = TRUE] ELSE w)

\* The continuation after the await: the awaited callback has resolved or
\* rejected.
handleSubmitResume(w, call, outcome) ==
  LET w1 == IF call.cb = "onValid" /\ outcome = "resolved"
            THEN [w EXCEPT !.formP.isSubmitSuccessful = TRUE] ELSE w
  IN SubmitFinally(w1)

\* ---------------------------------------------------------------------------
\* Initial state: the tree has rendered once, every notify effect is pending.

Unmounted == [initialValue |-> "", value |-> "", errors |-> NO_FIELD_ERRORS]

NoObject == [dirtyBits |-> BM_create, fieldErrors |-> EM_create]

NoArray == [dirtyBits |-> BA_fromLength(0), fieldErrors |-> EA_fromLength(0),
            errors |-> NO_FIELD_ERRORS]

InitForm(items) ==
  [value |-> [id |-> 0, items |-> items],
   initialValue |-> [id |-> 0, items |-> items],
   isDirty |-> FALSE, errors |-> {},
   isSubmitting |-> FALSE, isSubmitted |-> FALSE, isSubmitSuccessful |-> FALSE]

\* Fields that validate their initial value when they mount.
InitFields_Validated(items) ==
  [i \in Slots |-> IF i <= Len(items)
                   THEN [initialValue |-> items[i], value |-> items[i],
                         errors |-> IF items[i] = ""
                                    THEN NewErrorSet(10 * i + 1, "Required")
                                    ELSE NO_FIELD_ERRORS]
                   ELSE Unmounted]

InitFields(items) ==
  [i \in Slots |-> IF i <= Len(items)
                   THEN [initialValue |-> items[i], value |-> items[i],
                         errors |-> NO_FIELD_ERRORS]
                   ELSE Unmounted]

\* last: op, idx and arg name the user event being propagated and its
\* arguments (kept by the effects it causes, cleared when the tree has
\* settled), pre is the list before it; step tells which code ran last (the
\* event's "handler", the notify effect of the "field" in slot who, or the
\* notify effect of the "owner"), validated and notified what it did. For
\* setValue and reset, list is the list passed (arg the string, for a scalar
\* form), opt the mode of setValue or "keep" for keepDirtyValues, and hasNew
\* tells that reset got a new initial value; wasDirty tells that, before the
\* event, the length differed from the initial length or a live child was
\* dirty. For a submit and for the settling of its callback, call is the
\* call handleSubmit made.
\*
\* A call of handleSubmit's: cb is the callback called ("onValid",
\* "onInvalid" or "none"), value and errors what it was given (the errors by
\* message), outcome how far it got ("threw" at once, "pending", "resolved" or
\* "rejected"), and overlapped tells that another submit started or was
\* awaiting its callback while this one was.
\* No utility object is exercised on its own.
NoLib == [op |-> "none", ba |-> BA_fromLength(0), heap |-> <<>>, args |-> <<>>,
          out |-> [heap |-> <<>>, ret |-> 0],
          a |-> NO_FIELD_ERRORS, b |-> NO_FIELD_ERRORS, eq |-> FALSE,
          rev |-> FALSE]

NoCall == [cb |-> "none", value |-> <<>>, errors |-> {}, outcome |-> "none",
           overlapped |-> FALSE]

NoEvent == [op |-> "none", idx |-> 0, arg |-> "", list |-> <<>>, opt |-> "",
            hasNew |-> FALSE, pre |-> <<>>, wasDirty |-> FALSE,
            call |-> NoCall, fns |-> <<>>,
            step |-> "none", who |-> 0,
            validated |-> FALSE, notified |-> FALSE]

Event(op, idx, arg) == [NoEvent EXCEPT !.op = op, !.idx = idx, !.arg = arg]

InitArray ==
  /\ harness = "array"
  /\ mode \in {"onChange", "onBlur"}
  /\ rule \in {"none", "notOne"}
  /\ \E items \in InitLists :
       /\ form = InitForm(items) /\ formP = form
       /\ arr = [dirtyBits |-> BA_fromLength(Len(items)),
                 fieldErrors |-> EA_fromLength(Len(items)),
                 errors |-> NO_FIELD_ERRORS]
       /\ arrP = arr
       /\ fld = InitFields(items) /\ fldP = fld
       /\ effF = 1..Len(items)
  /\ arrPrev = NO_FIELD_ERRORS
  /\ obj = NoObject /\ objP = obj
  /\ fldPrev = [i \in Slots |-> NO_FIELD_ERRORS]
  /\ effA = TRUE
  /\ phase = "effects"
  /\ subs = <<>>
  /\ lib = NoLib
  /\ last = [NoEvent EXCEPT !.op = "mount"]

\* ObjectTest: both keys are mounted from the start.
InitObject ==
  /\ harness = "object"
  /\ mode \in {"onChange", "onBlur"}
  /\ rule = "none"
  /\ \E items \in [Slots -> Vals] :
       /\ form = InitForm(items) /\ formP = form
       /\ fld = InitFields(items) /\ fldP = fld
  /\ arr = NoArray /\ arrP = arr /\ arrPrev = NO_FIELD_ERRORS
  /\ obj = NoObject /\ objP = obj
  /\ fldPrev = [i \in Slots |-> NO_FIELD_ERRORS]
  /\ effF = Slots
  /\ effA = TRUE
  /\ phase = "effects"
  /\ subs = <<>>
  /\ lib = NoLib
  /\ last = [NoEvent EXCEPT !.op = "mount"]

\* FieldTest: one field directly under the form.
InitScalar ==
  /\ harness = "field"
  /\ mode \in {"onChange", "onBlur"}
  /\ rule = "none"
  /\ \E v \in Vals :
       /\ form = InitForm(<<v>>) /\ formP = form
       /\ fld = InitFields(<<v>>) /\ fldP = fld
  /\ arr = NoArray /\ arrP = arr /\ arrPrev = NO_FIELD_ERRORS
  /\ obj = NoObject /\ objP = obj
  /\ fldPrev = [i \in Slots |-> NO_FIELD_ERRORS]
  /\ effF = {1}
  /\ effA = FALSE
  /\ phase = "effects"
  /\ subs = <<>>
  /\ lib = NoLib
  /\ last = [NoEvent EXCEPT !.op = "mount"]

\* ---------------------------------------------------------------------------
\* Steps

\* Queue what the handler or effect wrote and record what it did.
Queue(w, ev) ==
  /\ formP' = w.formP /\ arrP' = w.arrP /\ arrPrev' = w.arrPrev
  /\ objP' = w.objP /\ fldP' = w.fldP /\ fldPrev' = w.fldPrev
  /\ last' = [ev EXCEPT !.validated = w.validated, !.notified = w.notified]
  /\ UNCHANGED <<harness, mode, rule, form, arr, obj, fld>>

\* The counters the model caps.
InBounds(w) ==
  /\ w.arrP.fieldErrors.length <= MaxLen + MaxDrift
  /\ w.arrP.dirtyBits.numTrue \in (0 - MaxDrift)..(MaxLen + MaxDrift)

\* The committed tree is dirty: the length differs from the initial length or
\* a live child is dirty.
TreeIsDirty ==
  \/ Len(form.value.items) # Len(form.initialValue.items)
  \/ \E i \in 1..Len(form.value.items) : FieldIsDirty(fld[i])

\* A user event is handled, or an awaited callback settles, when the previous
\* event has finished propagating.
HandleWith(w, ev, nextSubs) ==
  /\ phase = "idle"
  /\ InBounds(w)
  /\ Queue(w, [ev EXCEPT !.pre = form.value.items, !.wasDirty = TreeIsDirty,
                         !.step = "handler"])
  /\ phase' = "render"
  /\ subs' = nextSubs
  /\ UNCHANGED <<effF, effA, lib>>

Handle(w, ev) == HandleWith(w, ev, subs)

FieldChange(i, v) ==
  /\ i \in Mounted(World)
  /\ Handle(wrappedOnChange(World, i, v), Event("change", i, v))

FieldBlur(i) ==
  /\ i \in Mounted(World)
  /\ Handle(onBlur(World, i), Event("blur", i, ""))

AppendRow(v) ==
  /\ harness = "array" /\ Len(form.value.items) < MaxLen
  /\ Handle(append(World, v), Event("append", Len(form.value.items) + 1, v))

RemoveRow(index) ==
  /\ harness = "array"
  /\ Handle(remove(World, index), Event("remove", index, ""))

SetValue(items, setMode) ==
  /\ harness = "array"
  /\ Handle(FormSetValueMethod(World, items, setMode),
            [Event("setValue", 0, "") EXCEPT !.list = items, !.opt = setMode])

Reset(hasNew, items, keepDirtyValues) ==
  /\ harness = "array"
  /\ Handle(FormReset(World, hasNew, items, keepDirtyValues),
            [Event("reset", 0, "") EXCEPT
               !.list = items, !.hasNew = hasNew,
               !.opt = IF keepDirtyValues THEN "keep" ELSE ""])

Trigger ==
  Handle(FormTrigger(World), Event("trigger", 0, ""))

\* ObjectTest's "set value" button sets key a to "1" and leaves the rest of
\* the previous value; "clear value" sets the empty object {a: "", b: ""}.
SetValueObject(items, setMode) ==
  /\ harness = "object"
  /\ Handle(FormSetValueObject(World, items, setMode),
            [Event("setValue", 0, "") EXCEPT !.list = items, !.opt = setMode])

SetValueFns(us, setMode) ==
  /\ harness = "object"
  /\ Handle(FormSetValueFns(World, us, setMode),
            [Event("setValueFn", 0, "") EXCEPT !.fns = us, !.opt = setMode])

ResetObject(hasNew, items, keepDirtyValues) ==
  /\ harness = "object"
  /\ Handle(FormResetObject(World, hasNew, items, keepDirtyValues),
            [Event("reset", 0, "") EXCEPT
               !.list = items, !.hasNew = hasNew,
               !.opt = IF keepDirtyValues THEN "keep" ELSE ""])

\* A click on "submit". The invocations awaiting their callback overlap with
\* the new one.
Submit(hasOnInvalid, throws) ==
  LET call == SubmitCall(World, hasOnInvalid, throws)
      others == [k \in 1..Len(subs) |-> [subs[k] EXCEPT !.overlapped = TRUE]]
  IN /\ call.outcome = "pending" => Len(subs) < MaxSubmits
     /\ call.cb = "none" => ~throws
     /\ HandleWith(handleSubmit(World, hasOnInvalid, throws),
                   [Event("submit", 0, "") EXCEPT
                      !.call = call,
                      !.opt = IF hasOnInvalid THEN "onInvalid" ELSE ""],
                   IF call.outcome = "pending" THEN Append(others, call)
                   ELSE others)

\* The callback awaited by the k-th invocation in flight settles.
Settle(k, outcome) ==
  /\ k \in 1..Len(subs)
  /\ HandleWith(handleSubmitResume(World, subs[k], outcome),
                [Event("settle", k, "") EXCEPT
                   !.call = [subs[k] EXCEPT !.outcome = outcome]],
                RemoveAt(subs, k))

SetValueScalar(v, setMode) ==
  /\ harness = "field"
  /\ Handle(FormSetValueScalar(World, v, setMode),
            [Event("setValue", 1, v) EXCEPT !.opt = setMode])

ResetScalar(hasNew, v, keepDirtyValues) ==
  /\ harness = "field"
  /\ Handle(FormResetScalar(World, hasNew, v, keepDirtyValues),
            [Event("reset", 1, v) EXCEPT
               !.hasNew = hasNew,
               !.opt = IF keepDirtyValues THEN "keep" ELSE ""])

\* Identities of Set and FieldError objects are only ever compared with each
\* other: after a commit the live ones are renamed, in order, to the least
\* identities of their owner.
Rank(x, live) ==
  IF x = 0 THEN 0
  ELSE 10 * (x \div 10)
       + Cardinality({y \in live \ {0} : y \div 10 = x \div 10 /\ y <= x})

RenameErrs(errs, live) == {[id |-> Rank(e.id, live), msg |-> e.msg] : e \in errs}

RenameSet(s, live) == [id |-> Rank(s.id, live), errs |-> RenameErrs(s.errs, live)]

RenameMap(map, live) == [k \in DOMAIN map |-> RenameSet(map[k], live)]

ArrEffectPending(f, fP, a, aP) ==
  \/ fP.value.id # f.value.id
  \/ ArrIsDirty(fP, aP) # ArrIsDirty(f, a)
  \/ aP.errors.id # a.errors.id
  \/ aP.fieldErrors.cid # a.fieldErrors.cid

ObjEffectPending(f, fP, o, oP) ==
  \/ fP.value.id # f.value.id
  \/ ObjIsDirty(oP) # ObjIsDirty(o)
  \/ oP.fieldErrors.cid # o.fieldErrors.cid

\* The owner's notify effect has a changed dependency.
OwnerPending ==
  IF harness = "array" THEN ArrEffectPending(form, formP, arr, arrP)
  ELSE IF harness = "object" THEN ObjEffectPending(form, formP, obj, objP)
  ELSE FALSE

\* React renders: the queued state is committed, children are mounted and
\* unmounted by index key, and the notify effects whose dependencies changed
\* are scheduled.
\* The fields useMemo is recomputed: every child gets a new control.
FieldsRecomputed ==
  \/ formP.value.id # form.value.id
  \/ formP.initialValue.id # form.initialValue.id

\* The children whose notify effect the render schedules: the mounting ones
\* and those with a changed dependency (errors, isDirty, onChange, value).
PendingFields ==
  {i \in 1..Len(formP.value.items) :
     \/ i > Len(form.value.items)
     \/ FieldsRecomputed
     \/ fldP[i].value # fld[i].value
     \/ FieldIsDirty(fldP[i]) # FieldIsDirty(fld[i])
     \/ fldP[i].errors.id # fld[i].errors.id}

\* The render schedules no effect: the event has finished propagating.
Settles == PendingFields = {} /\ ~OwnerPending

Render ==
  /\ phase = "render"
  /\ LET was == 1..Len(form.value.items)
         now == 1..Len(formP.value.items)
         mounting(i) ==
           LET init == IF i <= Len(formP.initialValue.items)
                       THEN formP.initialValue.items[i]
                       ELSE formP.value.items[i]
           IN [initialValue |-> init, value |-> init, errors |-> NO_FIELD_ERRORS]
         nextFld == [i \in Slots |->
                       IF i \in now
                       THEN (IF i \in was THEN fldP[i] ELSE mounting(i))
                       ELSE Unmounted]
         pendingF == PendingFields
         pendingA == OwnerPending
         \* Object identities are only ever compared with each other: the
         \* committed ones are renamed to the least identities.
         nextPrev == [i \in Slots |-> IF i \in now /\ i \in was
                                       THEN fldPrev[i] ELSE NO_FIELD_ERRORS]
         live == {nextFld[i].errors.id : i \in Slots}
                 \cup {nextPrev[i].id : i \in Slots}
                 \cup {arrP.errors.id, arrPrev.id}
                 \cup MapIds(arrP.fieldErrors.errors)
                 \cup MapIds(objP.fieldErrors.errors)
                 \cup {e.id : e \in formP.errors}
         nextForm == [formP EXCEPT
                        !.errors = RenameErrs(formP.errors, live),
                        !.value.id = 0,
                        !.initialValue.id =
                           IF formP.initialValue.id = formP.value.id
                           THEN 0 ELSE 1]
         nextObj == [objP EXCEPT
                       !.fieldErrors.errors =
                          RenameMap(objP.fieldErrors.errors, live),
                       !.fieldErrors.cid =
                          IF objP.fieldErrors.cid = 0 THEN 0 ELSE 1]
         nextArr == [arrP EXCEPT
                       !.errors = RenameSet(arrP.errors, live),
                       !.fieldErrors.errors =
                          RenameMap(arrP.fieldErrors.errors, live),
                       !.fieldErrors.cid =
                          IF arrP.fieldErrors.cid = 0 THEN 0 ELSE 1]
     IN /\ form' = nextForm /\ formP' = nextForm
        /\ arr' = nextArr /\ arrP' = nextArr
        /\ obj' = nextObj /\ objP' = nextObj
        /\ fld' = [i \in Slots |->
                     [nextFld[i] EXCEPT
                        !.errors = RenameSet(nextFld[i].errors, live)]]
        /\ fldP' = fld'
        /\ fldPrev' = [i \in Slots |-> RenameSet(nextPrev[i], live)]
        /\ arrPrev' = RenameSet(arrPrev, live)
        /\ effF' = pendingF /\ effA' = pendingA
        /\ phase' = IF Settles THEN "idle" ELSE "effects"
        /\ last' = IF Settles THEN NoEvent ELSE last
  /\ UNCHANGED <<harness, mode, rule, subs, lib>>

\* The notify effect of the child in slot i: onChange(value, {isDirty, errors}).
FieldEffect(i) ==
  /\ phase = "effects"
  /\ effF # {} /\ i = Min(effF)
  /\ LET w == IF harness = "array"
              THEN onChangeItem(World, fld[i].value, FieldIsDirty(fld[i]),
                                fld[i].errors, i)
              ELSE IF harness = "object"
              THEN onChangeItemObject(World, fld[i].value,
                                      FieldIsDirty(fld[i]), fld[i].errors, i)
              ELSE FormOnChange(World, ScalarValue(fld[i].value),
                                FieldIsDirty(fld[i]), fld[i].errors.errs)
     IN InBounds(w) /\ Queue(w, [last EXCEPT !.step = "field", !.who = i])
  /\ effF' = effF \ {i}
  /\ phase' = IF effF' = {} /\ ~effA THEN "render" ELSE "effects"
  /\ UNCHANGED <<effA, subs, lib>>

\* The notify effect of useFieldArray.
ArrayEffect ==
  /\ phase = "effects" /\ harness = "array"
  /\ effF = {} /\ effA
  /\ Queue(FormOnChange(World, form.value, ArrIsDirty(form, arr),
                        arr.errors.errs \cup EA_allErrors(arr.fieldErrors)),
           [last EXCEPT !.step = "owner", !.who = 0])
  /\ effA' = FALSE
  /\ phase' = "render"
  /\ UNCHANGED <<effF, subs, lib>>

\* The notify effect of useFieldObject.
ObjectEffect ==
  /\ phase = "effects" /\ harness = "object"
  /\ effF = {} /\ effA
  /\ Queue(FormOnChange(World, form.value, ObjIsDirty(obj),
                        EM_allErrors(obj.fieldErrors)),
           [last EXCEPT !.step = "owner", !.who = 0])
  /\ effA' = FALSE
  /\ phase' = "render"
  /\ UNCHANGED <<effF, subs, lib>>

SetModes == {"onChange", "onBlur", "set"}

\* The events of the rows and fields of both harnesses.
Next ==
  \/ \E i \in Slots, v \in Vals : FieldChange(i, v)
  \/ \E i \in Slots : FieldBlur(i)
  \/ \E v \in Vals : AppendRow(v)
  \/ \E index \in 0..(MaxLen + 1) : RemoveRow(index)
  \/ Trigger
  \/ Render
  \/ \E i \in Slots : FieldEffect(i)
  \/ ArrayEffect
  \/ ObjectEffect

Init == InitArray \/ InitObject

Spec == Init /\ [][Next]_vars

\* ArrayTest as the tests mount it by default (initialValue [""], mode
\* onChange, no validate prop), with its buttons for the form's setValue
\* (default mode) and reset() (with and without keepDirtyValues).
InitForm1 ==
  /\ InitArray
  /\ mode = "onChange" /\ rule = "none" /\ form.value.items = <<"">>

NextForm ==
  \/ \E i \in Slots, v \in Vals : FieldChange(i, v)
  \/ \E i \in Slots : FieldBlur(i)
  \/ \E v \in Vals : AppendRow(v)
  \/ \E index \in 0..(MaxLen + 1) : RemoveRow(index)
  \/ \E items \in Lists : SetValue(items, "onChange")
  \/ \E keep \in BOOLEAN : Reset(FALSE, <<>>, keep)
  \/ Trigger
  \/ Render
  \/ \E i \in Slots : FieldEffect(i)
  \/ ArrayEffect

SpecForm == InitForm1 /\ [][NextForm]_vars

\* ArrayTest in every configuration, with the changes of its fields and the
\* form's setValue in every mode.
NextSet ==
  \/ \E i \in Slots, v \in Vals : FieldChange(i, v)
  \/ \E items \in Lists, setMode \in SetModes : SetValue(items, setMode)
  \/ Render
  \/ \E i \in Slots : FieldEffect(i)
  \/ ArrayEffect

SpecSet == InitArray /\ [][NextSet]_vars

\* ArrayTest in validation mode onChange, with and without the array-level
\* rule, with the changes of its fields and the form's reset: with a new
\* initial list, without one, and without one keeping the dirty values.
InitReset == InitArray /\ mode = "onChange"

NextReset ==
  \/ \E i \in Slots, v \in Vals : FieldChange(i, v)
  \/ \E items \in Lists : Reset(TRUE, items, FALSE)
  \/ \E keep \in BOOLEAN : Reset(FALSE, <<>>, keep)
  \/ Render
  \/ \E i \in Slots : FieldEffect(i)
  \/ ArrayEffect

SpecReset == InitReset /\ [][NextReset]_vars

\* ArrayTest as the tests mount it by default, with the changes of its fields
\* and the form's reset to a new initial list keeping the dirty values.
NextKeep ==
  \/ \E i \in Slots, v \in Vals : FieldChange(i, v)
  \/ \E items \in Lists : Reset(TRUE, items, TRUE)
  \/ Render
  \/ \E i \in Slots : FieldEffect(i)
  \/ ArrayEffect

SpecKeep == InitForm1 /\ [][NextKeep]_vars

\* FieldTest with the whole interface of the form and handleSubmit: with and
\* without onInvalid, with callbacks that throw at once, resolve and reject.
Outcomes == {"resolved", "rejected"}

NextSubmit ==
  \/ \E v \in Vals : FieldChange(1, v)
  \/ FieldBlur(1)
  \/ \E v \in Vals, setMode \in SetModes : SetValueScalar(v, setMode)
  \/ \E v \in Vals, keep \in BOOLEAN : ResetScalar(TRUE, v, keep)
  \/ \E keep \in BOOLEAN : ResetScalar(FALSE, "", keep)
  \/ Trigger
  \/ \E hasOnInvalid \in BOOLEAN, throws \in BOOLEAN :
       Submit(hasOnInvalid, throws)
  \/ \E k \in 1..MaxSubmits, outcome \in Outcomes : Settle(k, outcome)
  \/ Render
  \/ FieldEffect(1)

SpecSubmit == InitScalar /\ [][NextSubmit]_vars

\* ObjectTest in every configuration, with the changes and blurs of its
\* fields and the form's setValue, reset and validate.
Objects == [Slots -> Vals]

NextObject ==
  \/ \E i \in Slots, v \in Vals : FieldChange(i, v)
  \/ \E i \in Slots : FieldBlur(i)
  \/ \E v \in Vals, setMode \in SetModes :
       SetValueObject([form.value.items EXCEPT ![1] = v], setMode)
  \/ \E setMode \in SetModes : SetValueObject([k \in Slots |-> ""], setMode)
  \/ \E items \in Objects, keep \in BOOLEAN : ResetObject(TRUE, items, keep)
  \/ \E keep \in BOOLEAN : ResetObject(FALSE, <<>>, keep)
  \/ Trigger
  \/ Render
  \/ \E i \in Slots : FieldEffect(i)
  \/ ObjectEffect

SpecObject == InitObject /\ [][NextObject]_vars

\* ArrayTest with its append, remove, trigger and submit buttons, the submit
\* button being disabled while a submit is in flight.
NextValidate ==
  \/ \E i \in Slots, v \in Vals : FieldChange(i, v)
  \/ \E i \in Slots : FieldBlur(i)
  \/ \E v \in Vals : AppendRow(v)
  \/ \E index \in 0..(MaxLen - 1) : RemoveRow(index)
  \/ Trigger
  \/ \E hasOnInvalid \in BOOLEAN :
       subs = <<>> /\ Submit(hasOnInvalid, FALSE)
  \/ Settle(1, "resolved")
  \/ Render
  \/ \E i \in Slots : FieldEffect(i)
  \/ ArrayEffect

\* ArrayTest with an array-level validator, as in the test "triggers
\* validation".
InitValidate == InitArray /\ rule = "notOne"

SpecValidate == InitValidate /\ [][NextValidate]_vars

\* ObjectTest with buttons that call setValue with a literal, and with one or
\* several updater functions in one click.
NextUpdate ==
  \/ \E i \in Slots, v \in Vals : FieldChange(i, v)
  \/ \E items \in Objects, setMode \in SetModes : SetValueObject(items, setMode)
  \/ \E n \in 1..MaxCalls :
       \E us \in [1..n -> Updaters], setMode \in SetModes :
         SetValueFns(us, setMode)
  \/ Render
  \/ \E i \in Slots : FieldEffect(i)
  \/ ObjectEffect

SpecUpdate == InitObject /\ [][NextUpdate]_vars

\* FieldTest with the whole interface of the form: change, blur, setValue in
\* every mode, reset with and without a new initial value and with and
\* without keepDirtyValues, and validate.
NextScalar ==
  \/ \E v \in Vals : FieldChange(1, v)
  \/ FieldBlur(1)
  \/ \E v \in Vals, setMode \in SetModes : SetValueScalar(v, setMode)
  \/ \E v \in Vals, keep \in BOOLEAN : ResetScalar(TRUE, v, keep)
  \/ \E keep \in BOOLEAN : ResetScalar(FALSE, "", keep)
  \/ Trigger
  \/ Render
  \/ FieldEffect(1)

SpecScalar == InitScalar /\ [][NextScalar]_vars

\* FieldTest with the validate prop of the test "reuses state if unchanged":
\* every non-empty value fails with 'Must be empty', and the user types '1'
\* and then '2' into the input.
InitReuse ==
  /\ harness = "field"
  /\ mode \in {"onChange", "onBlur"}
  /\ rule = "mustBeEmpty"
  /\ form = InitForm(<<"">>) /\ formP = form
  /\ fld = InitFields(<<"">>) /\ fldP = fld
  /\ arr = NoArray /\ arrP = arr /\ arrPrev = NO_FIELD_ERRORS
  /\ obj = NoObject /\ objP = obj
  /\ fldPrev = [i \in Slots |-> NO_FIELD_ERRORS]
  /\ effF = {1}
  /\ effA = FALSE
  /\ phase = "effects"
  /\ subs = <<>>
  /\ lib = NoLib
  /\ last = [NoEvent EXCEPT !.op = "mount"]

NextReuse ==
  \/ \E v \in {"", "1", "12"} : FieldChange(1, v)
  \/ FieldBlur(1)
  \/ \E v \in {"", "1", "12"}, setMode \in SetModes : SetValueScalar(v, setMode)
  \/ \E keep \in BOOLEAN : ResetScalar(FALSE, "", keep)
  \/ Trigger
  \/ Render
  \/ FieldEffect(1)

SpecReuse == InitReuse /\ [][NextReuse]_vars

\* ---------------------------------------------------------------------------
\* The utilities on their own, as a unit test calls them: no form is mounted.

\* Most Set objects a call of unionSets is given to choose its arguments from.
MaxSets == 2

\* Most arguments of a call of unionSets.
MaxArgs == 3

\* Longest BooleanArray.
MaxBits == 3

\* FieldError objects: two of them carry the same message.
ErrorPool == {[id |-> 1, msg |-> "a"], [id |-> 2, msg |-> "a"],
              [id |-> 3, msg |-> "b"]}

InitUtils ==
  /\ harness = "none" /\ mode = "onChange" /\ rule = "none"
  /\ form = InitForm(<<>>) /\ formP = form
  /\ arr = NoArray /\ arrP = arr /\ arrPrev = NO_FIELD_ERRORS
  /\ obj = NoObject /\ objP = obj
  /\ fld = [i \in Slots |-> Unmounted] /\ fldP = fld
  /\ fldPrev = [i \in Slots |-> NO_FIELD_ERRORS]
  /\ effF = {} /\ effA = FALSE
  /\ phase = "idle"
  /\ subs = <<>>
  /\ lib = [NoLib EXCEPT !.op = "new"]
  /\ last = NoEvent

\* A call on a utility: nothing but the utility changes.
LibCall(next) ==
  /\ harness = "none"
  /\ lib' = next
  /\ UNCHANGED <<harness, mode, rule, phase, form, formP, arr, arrP, arrPrev,
                 obj, objP, fld, fldP, fldPrev, effF, effA, subs, last>>

UnionSets(heap, ids) ==
  LibCall([NoLib EXCEPT !.op = "unionSets", !.heap = heap, !.args = ids,
                        !.out = unionSetsCall(heap, ids)])

DeepEqual(a, b) ==
  LibCall([NoLib EXCEPT !.op = "deepEqual", !.a = a, !.b = b,
                        !.eq = fieldErrorSetsDeepEqual(a, b),
                        !.rev = fieldErrorSetsDeepEqual(b, a)])

\* A method of the BooleanArray under test; the result replaces it.
BooleanArrayCall(op, ba) ==
  /\ Len(ba.bits) <= MaxBits
  /\ ba.numTrue \in (0 - MaxDrift)..(MaxBits + MaxDrift)
  /\ LibCall([NoLib EXCEPT !.op = op, !.ba = ba])

NextUtils ==
  \/ \E heap \in [1..MaxSets -> SUBSET ErrorPool] :
       \E n \in 0..MaxArgs : \E ids \in [1..n -> 1..MaxSets] :
         UnionSets(heap, ids)
  \/ \E a, b \in [id : 1..2, errs : SUBSET ErrorPool] :
       (a.id = b.id => a.errs = b.errs) /\ DeepEqual(a, b)
  \/ \E index \in 0..(MaxBits + 1), value \in BOOLEAN :
       BooleanArrayCall("set", BA_set(lib.ba, index, value))
  \/ \E value \in BOOLEAN : BooleanArrayCall("push", BA_push(lib.ba, value))
  \/ \E index \in 0..(MaxBits + 1) :
       BooleanArrayCall("remove", BA_remove(lib.ba, index))
  \/ \E n \in 0..1 :
       BooleanArrayCall("concat", BA_concat(lib.ba, BA_fromLength(n)))
  \/ \E end \in 0..MaxBits :
       BooleanArrayCall("slice", BA_slice(lib.ba, end))

SpecUtils == InitUtils /\ [][NextUtils]_vars

\* ---------------------------------------------------------------------------
\* Properties

\* The live children: the indices of the list, the keys of the object.
Live == 1..Len(form.value.items)

Msgs(errs) == {e.msg : e \in errs}

\* The field in slot i has the "Required" validate prop.
HasValidator(i) == harness = "array" \/ i = 1

\* The event's own handler has just run.
Handled(op) == phase = "render" /\ last.step = "handler" /\ last.op = op

\* The event op has finished propagating: the render about to commit
\* schedules no effect.
Settled(op) == phase = "render" /\ Settles /\ last.op = op

\* C1: once an event has finished propagating, the errors the form reports
\* are the union of the array's own errors and the errors stored by the live
\* children; nothing of a removed element is left in them.
C1_FormErrorsAreLiveUnion ==
  (phase = "idle" /\ harness = "array") =>
    form.errors = arr.errors.errs \cup UNION {fld[i].errors.errs : i \in Live}

\* C2: once an event has finished propagating, the array's reported isDirty
\* is true exactly when the length differs from the initial length or a live
\* element is dirty.
C2_DirtyIffLengthOrLiveDirty ==
  (phase = "idle" /\ harness = "array") =>
    (form.isDirty <=> (\/ Len(form.value.items) # Len(form.initialValue.items)
                       \/ \E i \in Live : FieldIsDirty(fld[i])))

\* C3: once an event has finished propagating, element i of the list (entry
\* k of the object) is the value of the field at index i (key k).
C3_ValueMatchesFields ==
  phase = "idle" => \A i \in Live : form.value.items[i] = fld[i].value

\* What the child in slot i reports equals what its parent has cached for it:
\* the value, the dirty flag, and the error set (the same object, or both
\* empty).
ReportEqualsCache(i) ==
  /\ i \in Live
  /\ fld[i].value = form.value.items[i]
  /\ IF harness = "array"
     THEN /\ BA_is(arr.dirtyBits, i, FieldIsDirty(fld[i]))
          /\ \/ fld[i].errors.id = EA_get(arr.fieldErrors, i).id
             \/ (fld[i].errors.errs = {} /\ EA_get(arr.fieldErrors, i).errs = {})
     ELSE /\ BM_get(obj.dirtyBits, i) = FieldIsDirty(fld[i])
          /\ \/ fld[i].errors.id = EM_get(obj.fieldErrors, i).id
             \/ (fld[i].errors.errs = {} /\ EM_get(obj.fieldErrors, i).errs = {})

\* C4: when the child whose notify effect runs next reports what its parent
\* (array or object) has cached for it, the step queues no state update of the
\* parent, runs no validator and does not notify the form.
C4_EqualReportIsNoOp ==
  [][(phase = "effects" /\ effF # {} /\ ReportEqualsCache(Min(effF)))
       => /\ arrP' = arrP /\ objP' = objP /\ formP' = formP
          /\ arrPrev' = arrPrev
          /\ ~last'.notified /\ ~last'.validated]_vars

\* A child with errors has just reported exactly what the array had cached.
C4_Witness ==
  /\ last.step = "field" /\ ReportEqualsCache(last.who)
  /\ fld[last.who].errors.errs # {}
  /\ ~last.notified

\* C5: remove(index) with an index outside the list queues no update of the
\* list, the dirty bits or the error map, runs no validator and does not
\* notify the form.
C5_RemoveOutOfRangeIsNoOp ==
  (Handled("remove") /\ last.idx \notin 1..Len(last.pre))
    => /\ formP = form /\ arrP = arr /\ fldP = fld
       /\ ~last.notified /\ ~last.validated

\* remove was called with index = length on a list with elements and errors.
C5_Witness ==
  /\ Handled("remove") /\ last.idx = Len(last.pre) + 1
  /\ last.pre # <<>> /\ form.errors # {}
  /\ formP = form

\* C6: once remove(i) has finished propagating, the list is the other
\* elements in their order and the field at each index j shows the list's
\* value at j.
C6_RemoveKeepsOthersInOrder ==
  (Settled("remove") /\ last.idx \in 1..Len(last.pre))
    => /\ formP.value.items = RemoveAt(last.pre, last.idx)
       /\ \A j \in 1..Len(formP.value.items) :
            fldP[j].value = formP.value.items[j]

\* C7: append(v) queues the previous list with v at the end and runs the
\* array's validator on it; once it has finished propagating the list is
\* still that one, the field of the new element is not dirty and has no
\* errors, and the form's errors hold the array-level error exactly when the
\* new list fails the array's rule.
C7_AppendAddsCleanLastElement ==
  /\ Handled("append")
       => /\ formP.value.items = Append(last.pre, last.arg)
          /\ last.notified
          /\ last.validated = (rule # "none")
  /\ Settled("append")
       => /\ formP.value.items = Append(last.pre, last.arg)
          /\ fldP[last.idx].errors.errs = {}
          /\ ~FieldIsDirty(fldP[last.idx])
          /\ rule = "notOne" =>
               (Len(formP.value.items) # 1
                  <=> "Not one element" \in Msgs(formP.errors))

\* An invalid element was appended as the second one under the array's rule,
\* and the event has finished propagating.
C7_Witness ==
  /\ Settled("append") /\ last.arg = "" /\ rule = "notOne"
  /\ Len(formP.value.items) = 2
  /\ "Not one element" \in Msgs(formP.errors)

\* C8: until the first event, no field, no array and no form has errors,
\* committed or queued, whatever the initial values.
C8_NoErrorsBeforeFirstEvent ==
  last.op = "mount" =>
    /\ \A i \in Slots : fld[i].errors.errs = {} /\ fldP[i].errors.errs = {}
    /\ arr.errors.errs = {} /\ arrP.errors.errs = {}
    /\ EA_allErrors(arrP.fieldErrors) = {} /\ EM_allErrors(objP.fieldErrors) = {}
    /\ form.errors = {} /\ formP.errors = {}

\* The mount of a list that fails the array's rule, with an element that fails
\* "Required", has finished propagating.
C8_Witness ==
  /\ Settled("mount") /\ rule = "notOne" /\ Live # {}
  /\ \A i \in Live : fld[i].value = ""
  /\ formP.errors = {}

\* C9 as stated: in mode onChange, onChange with the invalid value the field
\* was mounted with (and still has) leaves the field with errors.
C9_SameInvalidValueSetsErrors ==
  (/\ Handled("change") /\ mode = "onChange" /\ HasValidator(last.idx)
   /\ last.arg = ""
   /\ fld[last.idx].value = "" /\ fld[last.idx].initialValue = "")
    => fldP[last.idx].errors.errs # {}

\* C9 amended: in mode onChange, onChange with an invalid value that differs
\* from the field's current value leaves the field with errors.
C9_ChangedInvalidValueSetsErrors ==
  (/\ Handled("change") /\ mode = "onChange" /\ HasValidator(last.idx)
   /\ last.arg = ""
   /\ fld[last.idx].value # "")
    => /\ fldP[last.idx].errors.errs # {}
       /\ last.validated

\* A valid field without errors was changed to the invalid value.
C9_Witness ==
  /\ Handled("change") /\ mode = "onChange" /\ HasValidator(last.idx)
  /\ last.arg = "" /\ fld[last.idx].value = "1"
  /\ fld[last.idx].errors.errs = {}
  /\ fldP[last.idx].errors.errs # {}

\* C10: onChange with the field's current value queues no update of any
\* field, parent or form, runs no validator and notifies nobody.
C10_SameValueIsNoOp ==
  (Handled("change") /\ last.arg = fld[last.idx].value)
    => /\ fldP = fld /\ arrP = arr /\ objP = obj /\ formP = form
       /\ ~last.validated /\ ~last.notified

\* In mode onChange a field got its own invalid value again, having no errors.
C10_Witness ==
  /\ Handled("change") /\ mode = "onChange" /\ HasValidator(last.idx)
  /\ last.arg = "" /\ fld[last.idx].value = ""
  /\ fld[last.idx].errors.errs = {}
  /\ fldP = fld

\* What the "Required" validate prop returns for val, as messages.
Required(val) == IF val = "" THEN {"Required"} ELSE {}

\* C11: the field's validator runs only in the handler of a change event in
\* mode onChange, of a blur event in mode onBlur, of validate() or of
\* setValue; in mode onBlur a change event queues the new value and leaves
\* the errors as they are, and the blur event makes the errors the
\* validator's result for the current value.
C11_ValidationFollowsMode ==
  /\ last.validated =>
        /\ last.step = "handler"
        /\ \/ last.op = "change" /\ mode = "onChange"
           \/ last.op = "blur" /\ mode = "onBlur"
           \/ last.op \in {"trigger", "setValue"}
  /\ (Handled("change") /\ mode = "onBlur")
        => /\ fldP[1].value = last.arg
           /\ fldP[1].errors = fld[1].errors
  /\ (Handled("blur") /\ mode = "onBlur")
        => /\ Msgs(fldP[1].errors.errs) = Required(fld[1].value)
           /\ fldP[1].value = fld[1].value

\* In mode onBlur the field was changed to the invalid value without getting
\* errors, and the blur that follows has given it the "Required" error.
C11_Witness ==
  /\ Handled("blur") /\ mode = "onBlur"
  /\ fld[1].value = "" /\ fld[1].initialValue = "1"
  /\ fld[1].errors.errs = {}
  /\ Msgs(fldP[1].errors.errs) = {"Required"}

\* C12: the stored initial value of the field changes only when reset is
\* given a new one, and is then that one; once an event has finished
\* propagating, the isDirty the form reports is (the field's value differs
\* from its stored initial value), so that changing the value back to the
\* initial value leaves field and form clean.
C12_DirtyIsValueDiffersFromInitial ==
  /\ phase # "idle" =>
        fldP[1].initialValue =
          IF Handled("reset") /\ last.hasNew THEN last.arg
          ELSE fld[1].initialValue
  /\ phase = "idle" =>
        form.isDirty = (fld[1].value # fld[1].initialValue)

\* A change back to the initial value has finished propagating: the form was
\* dirty and is now clean.
C12_Witness ==
  /\ Settled("change") /\ last.arg = fldP[1].initialValue
  /\ fldP[1].value = last.arg
  /\ form.isDirty /\ ~formP.isDirty

\* C13: reset(v?) without keepDirtyValues queues, for the field, the (new)
\* initial value as its value and the empty error set; once the reset has
\* finished propagating the field is clean and the form reports the field's
\* value, isDirty false and no errors.
C13_ResetRestoresInitial ==
  /\ (Handled("reset") /\ last.opt # "keep")
        => /\ fldP[1].initialValue =
                (IF last.hasNew THEN last.arg ELSE fld[1].initialValue)
           /\ fldP[1].value = fldP[1].initialValue
           /\ fldP[1].errors.errs = {}
  /\ (Settled("reset") /\ last.opt # "keep")
        => /\ fldP[1].value = fldP[1].initialValue
           /\ fldP[1].errors.errs = {}
           /\ formP.value.items = <<fldP[1].value>>
           /\ ~formP.isDirty
           /\ formP.errors = {}

\* A reset to a new initial value has finished propagating on a form that was
\* dirty and had errors.
C13_Witness ==
  /\ Settled("reset") /\ last.opt # "keep" /\ last.hasNew
  /\ last.pre = <<"">> /\ last.arg = "1"
  /\ form.isDirty /\ form.errors # {}
  /\ formP.value.items = <<"1">> /\ ~formP.isDirty /\ formP.errors = {}

\* C14: reset(v?, {keepDirtyValues: true}) on a dirty field queues no change
\* of its value or its errors and stores v, when given, as the initial value;
\* once the reset has finished propagating, the isDirty reported is (the
\* value differs from the stored initial value), which is v when given.
C14_KeepDirtyKeepsValueMovesBaseline ==
  /\ (/\ Handled("reset") /\ last.opt = "keep"
      /\ fld[1].value # fld[1].initialValue)
        => /\ fldP[1].value = fld[1].value
           /\ fldP[1].errors = fld[1].errors
           /\ fldP[1].initialValue =
                (IF last.hasNew THEN last.arg ELSE fld[1].initialValue)
  /\ (Settled("reset") /\ last.opt = "keep")
        => /\ last.hasNew => fldP[1].initialValue = last.arg
           /\ formP.isDirty = (fldP[1].value # fldP[1].initialValue)

\* A dirty field with errors was reset, keeping dirty values, to a new initial
\* value equal to its value: value and errors stay, the baseline moves.
C14_Witness ==
  /\ Handled("reset") /\ last.opt = "keep" /\ last.hasNew
  /\ fld[1].value = "" /\ fld[1].initialValue = "1" /\ last.arg = ""
  /\ fld[1].errors.errs # {}
  /\ fldP[1].initialValue = "" /\ fldP[1].value = ""
  /\ fldP[1].errors = fld[1].errors

C16_SetValueAlwaysValidates ==
  (Handled("setValue") /\ last.opt = "onChange" /\ mode = "onChange")
    => /\ fldP[1].value = last.arg
       /\ Msgs(fldP[1].errors.errs) = Required(last.arg)

\* What a change event delivering last.arg queues for the field: nothing when
\* it is the field's value; otherwise the new value and, in validation mode
\* onChange, the validator's result for it (in mode onBlur the errors stay).
ChangeOutcome ==
  IF last.arg = fld[1].value
  THEN fldP[1] = fld[1] /\ ~last.validated
  ELSE /\ fldP[1].value = last.arg
       /\ fldP[1].initialValue = fld[1].initialValue
       /\ IF mode = "onChange"
          THEN last.validated /\ Msgs(fldP[1].errors.errs) = Required(last.arg)
          ELSE ~last.validated /\ fldP[1].errors = fld[1].errors

\* C16 amended: setValue(v) in mode onChange queues for the field what a
\* change event delivering v queues: when v differs from the field's value,
\* the value v and, in validation mode onChange, the validator's result for
\* v as errors; when v is the field's value, nothing.
C16_SetValueActsAsChange ==
  /\ Handled("change") => ChangeOutcome
  /\ (Handled("setValue") /\ last.opt = "onChange") => ChangeOutcome

\* In validation mode onChange a valid field without errors was set to the
\* invalid value by setValue in mode onChange and has got the error.
C16_Witness ==
  /\ Handled("setValue") /\ last.opt = "onChange" /\ mode = "onChange"
  /\ fld[1].value = "1" /\ last.arg = ""
  /\ fld[1].errors.errs = {}
  /\ fldP[1].value = "" /\ Msgs(fldP[1].errors.errs) = {"Required"}

\* C17: setValue(v, {mode: 'onBlur'}) queues v as the field's value and, in
\* validation mode onBlur, the validator's result for v as its errors; once
\* it has finished propagating the field shows v.
C17_SetValueOnBlurChangesAndValidates ==
  /\ (Handled("setValue") /\ last.opt = "onBlur")
        => /\ fldP[1].value = last.arg
           /\ mode = "onBlur" =>
                Msgs(fldP[1].errors.errs) = Required(last.arg)
  /\ (Settled("setValue") /\ last.opt = "onBlur")
        => fldP[1].value = last.arg

\* C18: setValue(newList) on an array queues newList as the value, notifies
\* the form (also when newList is empty) and leaves dirty bits and error map
\* with exactly the slots of newList, those beyond the old length not dirty
\* and without errors; once it has finished propagating the value is
\* newList, the fields of the added indices are clean and without errors,
\* and the form's isDirty is (length differs from the initial length or a
\* live element is dirty).
C18_SetValueReconcilesLength ==
  /\ Handled("setValue")
        => /\ formP.value.items = last.list
           /\ last.notified
           /\ Len(arrP.dirtyBits.bits) = Len(last.list)
           /\ arrP.fieldErrors.length = Len(last.list)
           /\ DOMAIN arrP.fieldErrors.errors \subseteq 1..Len(last.list)
           /\ \A i \in (Len(last.pre) + 1)..Len(last.list) :
                /\ BA_is(arrP.dirtyBits, i, FALSE)
                /\ EA_get(arrP.fieldErrors, i).errs = {}
  /\ Settled("setValue")
        => /\ formP.value.items = last.list
           /\ \A i \in (Len(last.pre) + 1)..Len(last.list) :
                /\ ~FieldIsDirty(fldP[i])
                /\ fldP[i].errors.errs = {}
           /\ formP.isDirty =
                (\/ Len(last.list) # Len(formP.initialValue.items)
                 \/ \E i \in 1..Len(last.list) : FieldIsDirty(fldP[i]))

\* The array-level rule of the tests fails on the list.
ArrayRuleFails(items) == rule = "notOne" /\ Len(items) # 1

\* C19: once setValue(newList) in mode onChange has finished
\* propagating in validation mode onChange, the errors of every element of
\* newList, the added ones included, are its validator's result for its new
\* value, and the form has no errors exactly when no element rule and no
\* array-level rule fails.
C19_SetValueValidatesEveryElement ==
  (Settled("setValue") /\ last.opt = "onChange" /\ mode = "onChange")
    => /\ \A i \in 1..Len(last.list) :
            Msgs(fldP[i].errors.errs) = Required(last.list[i])
       /\ formP.errors = {} <=>
            (/\ ~ArrayRuleFails(last.list)
             /\ \A i \in 1..Len(last.list) : last.list[i] # "")

\* The list reset makes the baseline: the list passed, or the initial list
\* (which reset leaves alone) when none is passed.
ResetBaseline == IF last.hasNew THEN last.list ELSE formP.initialValue.items

\* C20: once reset(newList?) without keepDirtyValues has finished propagating,
\* the form's value is the new baseline list (also when its length differs
\* from the list before), every element's field holds its baseline value as
\* value and initial value with no errors, and the form is clean and has no
\* errors.
C20_ResetRestoresBaselineList ==
  (Settled("reset") /\ last.opt # "keep")
    => /\ formP.value.items = ResetBaseline
       /\ formP.initialValue.items = ResetBaseline
       /\ \A i \in 1..Len(ResetBaseline) :
            /\ fldP[i].value = ResetBaseline[i]
            /\ fldP[i].initialValue = ResetBaseline[i]
            /\ fldP[i].errors.errs = {}
       /\ ~formP.isDirty
       /\ formP.errors = {}

\* C21: reset(undefined, {keepDirtyValues: true}) on a dirty array (an element
\* is dirty, or the length differs from the initial length) changes neither
\* the list nor a field's value nor the dirty state of the elements and of the
\* form: not in what the handler queues, and not once it has finished
\* propagating.
C21_KeepDirtyLeavesDirtyArray ==
  /\ (Handled("reset") /\ last.opt = "keep" /\ ~last.hasNew /\ last.wasDirty)
       => /\ formP.value.items = form.value.items
          /\ formP.isDirty = form.isDirty
          /\ \A i \in Live : /\ fldP[i].value = fld[i].value
                              /\ FieldIsDirty(fldP[i]) = FieldIsDirty(fld[i])
  /\ (Settled("reset") /\ last.opt = "keep" /\ ~last.hasNew /\ last.wasDirty)
       => /\ formP.value.items = last.pre
          /\ formP.isDirty

\* C22: on a field object, reset(newValue, {keepDirtyValues: true}) leaves
\* every dirty child its value and errors and gives every other child its
\* entry of newValue and no errors; once it has finished propagating, the
\* form's value is made of the children's values (the kept and the reset
\* ones), the form is dirty when a child still is, and its errors are the
\* children's.
C22_ObjectKeepDirtyCombines ==
  /\ (Handled("reset") /\ harness = "object" /\ last.opt = "keep"
         /\ last.hasNew)
       => \A key \in Slots :
            IF FieldIsDirty(fld[key])
            THEN /\ fldP[key].value = fld[key].value
                 /\ fldP[key].errors = fld[key].errors
            ELSE /\ fldP[key].value = last.list[key]
                 /\ fldP[key].errors.errs = {}
  /\ (Settled("reset") /\ harness = "object" /\ last.opt = "keep"
         /\ last.hasNew)
       => /\ \A key \in Slots : formP.value.items[key] = fldP[key].value
          /\ formP.isDirty = (\E key \in Slots : FieldIsDirty(fldP[key]))
          /\ formP.errors = UNION {fldP[key].errors.errs : key \in Slots}

\* C24: every invocation of the callable of handleSubmit ends with
\* isSubmitting false and isSubmitted true: at once when validation fails
\* with no onInvalid or the callback throws, and otherwise when the awaited
\* callback has resolved or rejected; until then isSubmitting is true and
\* isSubmitted is as it was.
C24_SubmitAlwaysFinalizes ==
  /\ Handled("settle") => (~formP.isSubmitting /\ formP.isSubmitted)
  /\ (Handled("submit") /\ last.call.outcome # "pending")
       => (~formP.isSubmitting /\ formP.isSubmitted)
  /\ (Handled("submit") /\ last.call.outcome = "pending")
       => (formP.isSubmitting /\ formP.isSubmitted = form.isSubmitted)

\* A rejected onValid finalizes the flags of a form not yet submitted.
C24_Witness ==
  /\ Handled("settle")
  /\ last.call.cb = "onValid" /\ last.call.outcome = "rejected"
  /\ ~form.isSubmitted /\ formP.isSubmitted
  /\ form.isSubmitting /\ ~formP.isSubmitting

\* C25: a submit first validates the field, whatever the validation mode,
\* and stores the result; onValid is called, with the form's current value,
\* exactly when that result is empty; onInvalid is called, with the errors of
\* that result, exactly when it is not empty and onInvalid was given; one
\* submit calls at most one of them.
C25_SubmitValidatesThenCalls ==
  Handled("submit") =>
    LET errs == Msgs(fldP[1].errors.errs)
    IN /\ last.validated
       /\ errs = Required(fld[1].value)
       /\ last.call.cb = "onValid" <=> errs = {}
       /\ last.call.cb = "onValid" => last.call.value = form.value.items
       /\ last.call.cb = "onInvalid" <=> (errs # {} /\ last.opt = "onInvalid")
       /\ last.call.cb = "onInvalid" => last.call.errors = errs
       /\ last.call.cb \in {"onValid", "onInvalid", "none"}

\* In validation mode onBlur a field emptied and not yet blurred stores no
\* errors; the submit validates it and calls onInvalid with "Required".
C25_Witness ==
  /\ Handled("submit") /\ mode = "onBlur"
  /\ fld[1].value = "" /\ fld[1].initialValue = "1" /\ fld[1].errors.errs = {}
  /\ last.call.cb = "onInvalid" /\ last.call.errors = {"Required"}

\* The invocation that has just settled passed validation and its onValid
\* completed.
SettledSuccessfully ==
  last.call.cb = "onValid" /\ last.call.outcome = "resolved"

C27_SubmittingWhileInFlight ==
  formP.isSubmitting <=> (subs # <<>>)

\* C28: the root's reset() sets isSubmitted and isSubmitSuccessful to false
\* and leaves isSubmitting as it was, also while a handleSubmit invocation is
\* awaiting its callback.
C28_ResetClearsSubmitFlags ==
  Handled("reset")
    => /\ ~formP.isSubmitted
       /\ ~formP.isSubmitSuccessful
       /\ formP.isSubmitting = form.isSubmitting

\* A reset of a form that was submitted before, while a later submit is in
\* flight.
C28_Witness ==
  /\ Handled("reset")
  /\ subs # <<>> /\ form.isSubmitting
  /\ form.isSubmitted
  /\ formP.isSubmitting /\ ~formP.isSubmitted

\* C29: once isSubmitted is true, no operation other than reset makes it
\* false: neither a field change or blur, nor setValue, trigger, a further
\* submit or the settling of one.
C29_SubmittedUntilReset ==
  [][(formP.isSubmitted /\ ~formP'.isSubmitted) => last'.op = "reset"]_vars

\* A further submit of a form already submitted: isSubmitted stays true.
C29_Witness ==
  /\ Handled("submit")
  /\ form.isSubmitted /\ formP.isSubmitted
  /\ last.call.outcome = "pending"

\* What successive updater calls amount to when each sees the result of the
\* ones before it.
RECURSIVE Composed(_, _)
Composed(us, prev) ==
  IF us = <<>> THEN prev ELSE Composed(Tail(us), ApplyUpdater(Head(us), prev))

\* C30: the root's setValue sets the form's value in the handler itself, before
\* any child has notified: to the literal it is given, and, given updater
\* functions, to what they yield when each is applied to the result of the
\* calls before it.
C30_SetValueImmediateAndComposes ==
  /\ Handled("setValue") => formP.value.items = last.list
  /\ Handled("setValueFn") => formP.value.items = Composed(last.fns, last.pre)

\* The messages the array-level validator yields for a list.
ArrayRule(items) == IF ArrayRuleFails(items) THEN {"Not one element"} ELSE {}

\* The validate() of the array has just run, from a trigger or a submit.
ArrayValidated ==
  harness = "array" /\ (Handled("trigger") \/ Handled("submit"))

C37_SubmittingExcludesSuccessful ==
  /\ [](formP.isSubmitting => ~formP.isSubmitSuccessful)
  /\ [][(~formP.isSubmitSuccessful /\ formP'.isSubmitSuccessful)
          => last'.op = "settle"]_vars

\* A submit of a form whose last submit succeeded is in flight.
C37_Witness ==
  /\ Handled("submit") /\ last.call.outcome = "pending"
  /\ form.isSubmitSuccessful /\ ~form.isSubmitting
  /\ formP.isSubmitting /\ ~formP.isSubmitSuccessful

\* C38: unionSets returns a set holding exactly the elements that occur in
\* at least one input: it is empty for no inputs, has |A| + |B| elements for
\* disjoint A and B, equals A for the inputs [A, A], and every Set object
\* passed in holds after the call what it held before.
C38_UnionSetsIsUnion ==
  lib.op = "unionSets" =>
    LET result == lib.out.heap[lib.out.ret]
    IN /\ result = UNION {lib.heap[lib.args[k]] : k \in DOMAIN lib.args}
       /\ result = unionSets([k \in DOMAIN lib.args |->
                                [id |-> lib.args[k], errs |-> lib.heap[lib.args[k]]]])
       /\ lib.args = <<>> => result = {}
       /\ (Len(lib.args) = 2
             /\ lib.heap[lib.args[1]] \cap lib.heap[lib.args[2]] = {})
            => Cardinality(result) = Cardinality(lib.heap[lib.args[1]])
                                      + Cardinality(lib.heap[lib.args[2]])
       /\ (Len(lib.args) = 2 /\ lib.args[1] = lib.args[2])
            => result = lib.heap[lib.args[1]]
       /\ \A k \in DOMAIN lib.heap : lib.out.heap[k] = lib.heap[k]

\* Three overlapping non-empty sets are united into a new object.
C38_Witness ==
  /\ lib.op = "unionSets" /\ lib.args = <<1, 2, 1>>
  /\ lib.heap[1] # {} /\ lib.heap[2] # {}
  /\ lib.heap[1] \cap lib.heap[2] # {} /\ lib.heap[1] # lib.heap[2]
  /\ lib.out.ret = 3

\* C39: for two error sets without repeated messages,
\* fieldErrorSetsDeepEqual(a, b) is true exactly when a and b hold the same
\* messages, and so gives the same answer for (b, a) and is true for a set
\* and itself; two sets of different sizes are never equal.
C39_DeepEqualIsSameMessages ==
  LET MessageUnique(set) == \A x, y \in set.errs : x.msg = y.msg => x = y
  IN lib.op = "deepEqual" =>
       /\ (MessageUnique(lib.a) /\ MessageUnique(lib.b))
            => /\ lib.eq <=> Msgs(lib.a.errs) = Msgs(lib.b.errs)
               /\ lib.eq = lib.rev
               /\ lib.a.errs = lib.b.errs => lib.eq
       /\ Cardinality(lib.a.errs) # Cardinality(lib.b.errs) => ~lib.eq

\* Two different Set objects holding different error objects with the same
\* messages are equal.
C39_Witness ==
  /\ lib.op = "deepEqual" /\ lib.eq
  /\ lib.a.id # lib.b.id /\ lib.a.errs # lib.b.errs
  /\ Cardinality(lib.a.errs) = 2
  /\ Cardinality(Msgs(lib.a.errs)) = 2 /\ Cardinality(Msgs(lib.b.errs)) = 2

\* C40: after any sequence of set, push, remove, concat and slice calls on a
\* BooleanArray, set and remove with an index outside the array included,
\* the cached count of true bits is the number of true bits, so that
\* isAnyTrue is true exactly when some stored bit is true.
C40_IsAnyTrueMatchesBits ==
  LET bits == lib.ba.bits
  IN /\ lib.ba.numTrue = Cardinality({k \in 1..Len(bits) : bits[k]})
     /\ BA_isAnyTrue(lib.ba) <=> \E k \in 1..Len(bits) : bits[k]

\* C31: a handler or an effect that leaves the field, or the form, with
\* errors carrying the messages it had before leaves it with the very Set
\* and FieldError objects it had, so that changes through invalid values
\* with the same errors change the errors of the form once only.
C31_EqualErrorsKeepStoredSet ==
  [][phase # "render"
       => /\ Msgs(fldP'[1].errors.errs) = Msgs(fldP[1].errors.errs)
               => fldP'[1].errors = fldP[1].errors
          /\ Msgs(formP'.errors) = Msgs(formP.errors)
               => formP'.errors = formP.errors]_vars

\* A change from one invalid value to another re-validates the field.
C31_Witness ==
  /\ Handled("change") /\ last.validated
  /\ fld[1].value = "1" /\ last.arg = "12"
  /\ fld[1].errors.errs # {} /\ fldP[1].errors = fld[1].errors
  /\ Msgs(form.errors) = {"Must be empty"}

\* ---------------------------------------------------------------------------
\* C32

\* C32: every notification the field array sends from onChangeItem, append,
\* remove, setValue or reset carries the dirty flag and the error union of the
\* per-index caches as that same operation updated them (reset: the dirty
\* flag of the new bits; the form replaces the value itself afterwards).
C32_NotificationCarriesUpdatedAggregate ==
  LET ArrayNotified ==
        /\ harness = "array" /\ last.notified
        /\ \/ last.step = "field"
           \/ last.step = "handler"
                /\ last.op \in {"append", "remove", "setValue", "reset"}
      CachedDirty ==
        \/ Len(formP.value.items) # Len(formP.initialValue.items)
        \/ BA_isAnyTrue(arrP.dirtyBits)
      CachedErrors == arrP.errors.errs \cup EA_allErrors(arrP.fieldErrors)
  IN ArrayNotified =>
       /\ formP.errors = CachedErrors
       /\ formP.isDirty = IF last.op = "reset" /\ last.step = "handler"
                          THEN BA_isAnyTrue(arrP.dirtyBits)
                          ELSE CachedDirty

\* ---------------------------------------------------------------------------
\* C33

\* C33: remove(i) on a live index shifts the dirty bits and the error map, so
\* that the entry formerly at each j > i is at j-1, and both shrink by one.
C33_RemoveShiftsCaches ==
  LET ShiftedErrors(map, index) ==
        [k \in {j \in DOMAIN map : j < index}
               \cup {j - 1 : j \in {m \in DOMAIN map : m > index}} |->
           IF k < index THEN map[k] ELSE map[k + 1]]
  IN
  (harness = "array" /\ Handled("remove") /\ last.idx \in 1..Len(last.pre)) =>
    /\ Len(arrP.dirtyBits.bits) = Len(arr.dirtyBits.bits) - 1
    /\ \A k \in 1..Len(arrP.dirtyBits.bits) :
         arrP.dirtyBits.bits[k] =
           arr.dirtyBits.bits[IF k < last.idx THEN k ELSE k + 1]
    /\ arrP.fieldErrors.length = arr.fieldErrors.length - 1
    /\ arrP.fieldErrors.errors = ShiftedErrors(arr.fieldErrors.errors, last.idx)

\* ---------------------------------------------------------------------------
\* C34

\* C34: the dirty-bit array and the error map of a field array have exactly as
\* many slots as the list of the same (queued) state, and every key of the
\* sparse error map is the index of a live element.
C34_CachesMatchList ==
  harness = "array" =>
    /\ Len(arrP.dirtyBits.bits) = Len(formP.value.items)
    /\ arrP.fieldErrors.length = Len(formP.value.items)
    /\ DOMAIN arrP.fieldErrors.errors \subseteq 1..Len(formP.value.items)

\* ---------------------------------------------------------------------------
\* C35

\* C35: after the root's reset, the value queued for the form is the value the
\* reset left in the field below it: the new baseline when the value was
\* reset, the kept value when a dirty value was kept.
C35_RootResetTakesResultingValue ==
  (harness = "field" /\ Handled("reset")) =>
    formP.value.items = <<fldP[1].value>>

\* ---------------------------------------------------------------------------
\* C36

\* C36: reset(newList, {keepDirtyValues: true}) on a dirty array resets every
\* child with keepDirtyValues: every element takes its entry of newList as
\* baseline, a non-dirty element takes it as value too, and a dirty element
\* keeps its value.
C36_KeepDirtyResetsEveryChild ==
  (/\ harness = "array" /\ Handled("reset")
   /\ last.hasNew /\ last.opt = "keep" /\ last.wasDirty) =>
    \A i \in 1..Len(last.pre) :
      i <= Len(last.list) =>
        /\ fldP[i].initialValue = last.list[i]
        /\ fldP[i].value = IF FieldIsDirty(fld[i]) THEN fld[i].value
                           ELSE last.list[i]

====
